---- MODULE Spec2Model ----
(***************************************************************************)
(* Area severity aggregation engine of weather-disaster-tracker            *)
(* (api/_lib/severity.ts, api/areas/severity.ts).                          *)
(*                                                                         *)
(* Units.  Latitude and longitude are integers in units of 1e-4 degree     *)
(* (the resolution the cluster identifier prints, toFixed(4)).  A centroid *)
(* is a sum divided by a member count, kept as an exact reduced fraction   *)
(* <<numerator, denominator>>.  Every report of the model lies on one      *)
(* meridian; there dLng = 0, s = sin^2(dLat/2) and the haversine formula   *)
(* 2 R asin(sqrt(s)) is exactly R |dLat|, a distance kept in millimetres.  *)
(* Time is in whole hours.  The number NaN is the integer NaNDegrees as a  *)
(* coordinate and the fraction <<0, 0>> as a quotient or a distance.       *)
(***************************************************************************)
EXTENDS Integers, Sequences, FiniteSets, TLC

VARIABLES
    reports,   \* the report snapshot: id -> report
    pc,        \* groupReportsByArea, per invocation: "idle", "loop", "done"
    input,     \* per invocation: the list passed to groupReportsByArea
    idx,       \* per invocation: how many reports of input the loop has taken
    groups,    \* per invocation: the local array `groups`
    hist,      \* per invocation: the value of groups after 0, 1, ... reports
    clsPc,     \* a caller of assignSeverityLevel: "idle", "done"
    clsArgs,   \* the arguments of that call: score, reports, now
    clsResult, \* the severity it returned
    db,        \* the rows of the table community_reports, in physical order
    rkPc,      \* a caller of the ranking engine or of the endpoint: "idle", "done"
    rkCall,    \* what was called, with its arguments
    rkGroups,  \* the clusters calculateAreaSeverity got from groupReportsByArea
    rkUnsorted,\* the rankings calculateAreaSeverity built, in cluster-discovery order
    rkSorted,  \* the list calculateAreaSeverity returned
    rkResp,    \* the response of the area-severity handler
    sbPc,      \* a caller of the resolver or of the submission endpoint: "idle", "done"
    sbCall,    \* what was called, with its arguments
    sbSeverity,\* the severity calculateSeverityForLocation returned, "none" when not called
    sbStored,  \* the rows the submission handler inserted
    sbResp,    \* the status of the response of the submission handler
    sbReport,  \* the report the response carries, << >> when none
    sbBroadcast, \* the 'new_report' broadcast of the handler: "none", "sent", "failed"
    maPc,      \* the mostAffected computation of ReportsList: "idle", "done"
    maInput,   \* the reports it was given
    maClusters,\* its local array `clusters`
    maBest,    \* the cluster it returned, << >> for null
    twReports, \* the reports of a second call of calculateAreaSeverity
    twGroups,  \* the clusters of the second call
    twSorted,  \* the list the second call returned
    bdPc,      \* a caller of calculateBounds: "idle", "done"
    bdInput,   \* the reports it passes
    bdResult,  \* the ring of the polygon returned, << >> for undefined
    appPc,     \* the App component: "unmounted", "mounted"
    autoRefresh, \* the autoRefresh option useAreaSeverity was given
    events,    \* how many 'new_report' broadcasts the client has received
    ticks,     \* how many times the refresh interval has fired
    rankingsHeld, \* useAreaSeverity: the rankings state
    rankIssued,\* how many getAreaSeverity requests were issued
    rankFlight,\* the numbers of those in flight
    rankLast,  \* the last settled one: its number, outcome, answer, and the state before
    reportsHeld, \* useReports: the reports state
    total,     \* its total state
    hasMore,   \* its hasMore state
    repIssued, \* how many getReports requests were issued
    repFlight, \* the numbers of those in flight
    repAnswers,\* the settled ones: number, outcome, answer
    repLast,   \* the last settled one, and the reports state before
    cache,     \* table pagasa_cache: the rows of each endpoint
    pgPc,      \* the PAGASA cache handler: "idle", "done"
    pgCall,    \* the request it served, with what its reads and its fetch gave
    pgResp     \* its response

clusterVars == <<reports, pc, input, idx, groups, hist>>

clsVars == <<clsPc, clsArgs, clsResult>>

rankVars == <<db, rkPc, rkCall, rkGroups, rkUnsorted, rkSorted, rkResp>>

submitVars == <<sbPc, sbCall, sbSeverity, sbStored, sbResp, sbReport, sbBroadcast>>

maVars == <<maPc, maInput, maClusters, maBest>>

twVars == <<twReports, twGroups, twSorted>>

bdVars == <<bdPc, bdInput, bdResult>>

clientVars == <<appPc, autoRefresh, events, ticks, rankingsHeld, rankIssued, rankFlight, rankLast,
                reportsHeld, total, hasMore, repIssued, repFlight, repAnswers, repLast>>

pgVars == <<cache, pgPc, pgCall, pgResp>>

vars == <<clusterVars, clsVars, rankVars, submitVars, maVars, twVars, bdVars, clientVars,
          pgVars>>

----------------------------------------------------------------------------
(* Bounds of the model *)

MaxReports == 3
MaxGroupLen == 2
NowHours == 1000
BaseLat == 146000
Lng == 1210000

\* two callers of groupReportsByArea, free to interleave
Invocations == {1, 2}

\* Offsets (1e-4 degree, 11.13 m each) north of BaseLat; 2500 m is 224.58 units
LatOffsets == {0, 120, 270}

\* a report without coordinates: `!coords || coords.length !== 2`
NoCoords == << >>

CoordsSet == {NoCoords} \cup {<<BaseLat + o, Lng>> : o \in LatOffsets}

----------------------------------------------------------------------------
(* Arithmetic helpers *)

Abs(x) == IF x < 0 THEN -x ELSE x

Min(S) == CHOOSE x \in S : \A y \in S : x <= y

Max(S) == CHOOSE x \in S : \A y \in S : x >= y

RECURSIVE GCD(_, _)
GCD(a, b) == IF b = 0 THEN a ELSE GCD(b, a % b)

\* a latitude or longitude that is NaN
NaNDegrees == 2000000000

\* x + y on numbers that may be NaN
Plus(x, y) == IF x = NaNDegrees \/ y = NaNDegrees THEN NaNDegrees ELSE x + y

NaNRat == <<0, 0>>

\* the fraction n/d (d > 0) in lowest terms; NaN / d is NaN
Rat(n, d) ==
    IF n = NaNDegrees THEN NaNRat
    ELSE LET g == GCD(Abs(n), d) IN IF g = 0 THEN <<0, 1>> ELSE <<n \div g, d \div g>>

\* a <= b, false when either is NaN
RatLeq(a, b) == a[2] # 0 /\ b[2] # 0 /\ a[1] * b[2] <= b[1] * a[2]

\* a point with integer coordinates as a pair of fractions
Point(coords) == <<Rat(coords[1], 1), Rat(coords[2], 1)>>

----------------------------------------------------------------------------
(* Geo primitives *)

CLUSTER_RADIUS_M == 2500

\* R * pi / 180 * 1e-4 degree = 6378137 * 0.0174532925 * 1e-4 m = 11.1319 m
MillimetersPerUnit == 11132

\* haversineMeters(a, b), a and b pairs of fractions <<lat, lng>>: the distance in
\* millimetres, a fraction.  Defined on a meridian (equal longitudes); NaN when a
\* latitude or longitude is.
haversineMeters(a, b) ==
    LET dLatNum == a[1][1] * b[1][2] - b[1][1] * a[1][2]
        dLatDen == a[1][2] * b[1][2]
    IN  IF a[1][2] = 0 \/ a[2][2] = 0 \/ b[1][2] = 0 \/ b[2][2] = 0 THEN NaNRat
        ELSE CASE a[2] = b[2] -> Rat(Abs(dLatNum) * MillimetersPerUnit, dLatDen)

\* (the radius taken for kilometres)
WithinKilometers(dist, meters) == dist[1] \div 1000 <= meters * 1000 * dist[2]

\* `haversineMeters(...) <= radius`, the radius in metres
WithinMeters(dist, meters) == RatLeq(dist, <<meters * 1000, 1>>)

----------------------------------------------------------------------------
(* Spatial clustering: groupReportsByArea *)

HasCoords(report) == Len(report.coordinates) = 2

\* (a nearest-centroid scan, which the code does not do)
NearestMatch(gs, coords) ==
    LET S == {k \in 1..Len(gs) :
                WithinMeters(haversineMeters(Point(coords), gs[k].centroid), CLUSTER_RADIUS_M)}
    IN  IF S = {} THEN 0
        ELSE CHOOSE k \in S : \A j \in S :
                /\ RatLeq(haversineMeters(Point(coords), gs[k].centroid),
                          haversineMeters(Point(coords), gs[j].centroid))
                /\ (RatLeq(haversineMeters(Point(coords), gs[j].centroid),
                           haversineMeters(Point(coords), gs[k].centroid)) => k <= j)

\* (a scan that asks every member of a group, not its centroid, to be within the radius)
AllMembersMatch(gs, coords) ==
    LET S == {k \in 1..Len(gs) : \A m \in 1..Len(gs[k].reports) :
                WithinMeters(haversineMeters(Point(coords), Point(gs[k].reports[m].coordinates)),
                             CLUSTER_RADIUS_M)}
    IN  IF S = {} THEN 0 ELSE Min(S)

\* the scan of the existing groups (creation order) for a report at coords:
\* the index of the first one whose centroid is within the radius, 0 when none is
FirstMatch(gs, coords) ==
    LET S == {k \in 1..Len(gs) :
                WithinMeters(haversineMeters(Point(coords), gs[k].centroid), CLUSTER_RADIUS_M)}
    IN  IF S = {} THEN 0 ELSE Min(S)

NewGroup(report) ==
    [reports  |-> <<report>>,
     centroid |-> Point(report.coordinates),
     sumLat   |-> report.coordinates[1],
     sumLng   |-> report.coordinates[2]]

\* (a join that updates the sums and forgets to push the report)
JoinGroupDropsReport(g, report) ==
    LET n == Len(g.reports) + 1
        sLat == Plus(g.sumLat, report.coordinates[1])
        sLng == Plus(g.sumLng, report.coordinates[2])
    IN  [reports  |-> g.reports,
         centroid |-> <<Rat(sLat, n), Rat(sLng, n)>>,
         sumLat   |-> sLat,
         sumLng   |-> sLng]

\* (a join that moves the centroid halfway to the new report)
JoinGroupMidpoint(g, report) ==
    [reports  |-> Append(g.reports, report),
     centroid |-> <<Rat(g.centroid[1][1] + report.coordinates[1] * g.centroid[1][2],
                        2 * g.centroid[1][2]),
                    Rat(g.centroid[2][1] + report.coordinates[2] * g.centroid[2][2],
                        2 * g.centroid[2][2])>>,
     sumLat   |-> Plus(g.sumLat, report.coordinates[1]),
     sumLng   |-> Plus(g.sumLng, report.coordinates[2])]

\* a report joins the matched group: push, add to the sums, recompute the centroid
JoinGroup(g, report) ==
    LET n == Len(g.reports) + 1
        sLat == Plus(g.sumLat, report.coordinates[1])
        sLng == Plus(g.sumLng, report.coordinates[2])
    IN  [reports  |-> Append(g.reports, report),
         centroid |-> <<Rat(sLat, n), Rat(sLng, n)>>,
         sumLat   |-> sLat,
         sumLng   |-> sLng]

\* the report put into group `matched`, or into a new group when matched is 0
PlaceReport(gs, report, matched) ==
    IF matched = 0 THEN Append(gs, NewGroup(report))
    ELSE [gs EXCEPT ![matched] = JoinGroup(@, report)]

\* (an iteration that puts a report without coordinates at a default place)
ProcessReportAtDefault(gs, report) ==
    IF ~HasCoords(report)
    THEN PlaceReport(gs, [report EXCEPT !.coordinates = <<BaseLat, Lng>>],
                     FirstMatch(gs, <<BaseLat, Lng>>))
    ELSE PlaceReport(gs, report, FirstMatch(gs, report.coordinates))

\* one iteration of the loop over reports
ProcessReport(gs, report) ==
    IF ~HasCoords(report) THEN gs
    ELSE PlaceReport(gs, report, FirstMatch(gs, report.coordinates))

\* (an array shared between calls, which the code does not have)
SharedGroups(other) == other

\* `const groups: AreaGroup[] = []`: every call starts from its own empty array

FreshGroups(other) == << >>

\* the whole function, as a fold of the loop body over the list
RECURSIVE GroupFrom(_, _)
GroupFrom(gs, list) ==
    IF list = << >> THEN gs ELSE GroupFrom(ProcessReport(gs, Head(list)), Tail(list))

groupReportsByArea(list) == GroupFrom(FreshGroups(<< >>), list)

----------------------------------------------------------------------------
(* Scoring engine.  A score is an integer number of millionths. *)

ScoreUnit == 1000 * 1000

Severities == {"low", "medium", "high", "critical"}

SEVERITY_WEIGHTS == [critical |-> 4, high |-> 3, medium |-> 2, low |-> 1]

SEVERITY_THRESHOLDS == [critical |-> 12, high |-> 6, medium |-> 3]

TIME_THRESHOLDS == [critical |-> 6, high |-> 12, medium |-> 24]

\* Math.exp(-ageHours / 24) in millionths, rounded, for ageHours = 0, 1, ..., 48
ExpTable ==
    <<1000000, 959189, 920044, 882497, 846482, 811936, 778801, 747018, 716531,
      687289, 659241, 632337, 606531, 581778, 558035, 535261, 513417, 492464,
      472367, 453089, 434598, 416862, 399850, 383532, 367879, 352866, 338465,
      324652, 311403, 298695, 286505, 274812, 263597, 252840, 242521, 232624,
      223130, 214024, 205290, 196912, 188876, 181167, 173774, 166682, 159880,
      153355, 147096, 141093, 135335>>

\* Math.exp(-ageHours / 24) in millionths, rounded, for ageHours = -1, -2: a
\* timestamp after now has a negative age and a weight above 1
ExpTableFuture == <<1042547, 1086904>>

AgeHours(timestamp, now) == now - timestamp

getRecencyWeight(timestamp, now) ==
    IF AgeHours(timestamp, now) >= 0 THEN ExpTable[AgeHours(timestamp, now) + 1]
    ELSE ExpTableFuture[-AgeHours(timestamp, now)]

getSeverityWeight(severity) == SEVERITY_WEIGHTS[severity]

RECURSIVE calculateSeverityScore(_, _)
calculateSeverityScore(list, now) ==
    IF list = << >> THEN 0
    ELSE calculateSeverityScore(SubSeq(list, 1, Len(list) - 1), now)
         + getSeverityWeight(list[Len(list)].severity)
           * getRecencyWeight(list[Len(list)].timestamp, now)

\* (thresholds compared with > in place of >=)
ScoreLevelStrict(score) ==
    IF score > SEVERITY_THRESHOLDS.critical * ScoreUnit THEN "critical"
    ELSE IF score > SEVERITY_THRESHOLDS.high * ScoreUnit THEN "high"
    ELSE IF score > SEVERITY_THRESHOLDS.medium * ScoreUnit THEN "medium"
    ELSE "low"

\* the score thresholds alone
ScoreLevel(score) ==
    IF score >= SEVERITY_THRESHOLDS.critical * ScoreUnit THEN "critical"
    ELSE IF score >= SEVERITY_THRESHOLDS.high * ScoreUnit THEN "high"
    ELSE IF score >= SEVERITY_THRESHOLDS.medium * ScoreUnit THEN "medium"
    ELSE "low"

\* (an override scan that lets the most severe recent report win, not the first)
MostSevereOverride(list, now) ==
    LET Recent(sev) == \E k \in 1..Len(list) :
            /\ list[k].severity = sev
            /\ AgeHours(list[k].timestamp, now) < TIME_THRESHOLDS[sev]
    IN  IF Recent("critical") THEN "critical"
        ELSE IF Recent("high") THEN "high"
        ELSE IF Recent("medium") THEN "medium"
        ELSE "none"

\* (no override scan at all)
NoOverride(list, now) == "none"

\* the loop over the reports: the severity the first recent critical, high or
\* medium report makes the function return, "none" when the loop runs to its end
RECURSIVE OverrideScan(_, _)
OverrideScan(list, now) ==
    IF list = << >> THEN "none"
    ELSE LET report == Head(list)
             ageHours == AgeHours(report.timestamp, now)
         IN  IF report.severity = "critical" /\ ageHours < TIME_THRESHOLDS.critical
               THEN "critical"
             ELSE IF report.severity = "high" /\ ageHours < TIME_THRESHOLDS.high
               THEN "high"
             ELSE IF report.severity = "medium" /\ ageHours < TIME_THRESHOLDS.medium
               THEN "medium"
             ELSE OverrideScan(Tail(list), now)

\* (a classification that takes the higher of the override and the score level)
assignHigherLevel(score, list, now) ==
    LET override == OverrideScan(list, now)
    IN  IF override # "none"
           /\ SEVERITY_WEIGHTS[override] >= SEVERITY_WEIGHTS[ScoreLevel(score)]
        THEN override ELSE ScoreLevel(score)

\* assignSeverityLevel: the override scan first, the score thresholds otherwise
assignSeverityLevel(score, list, now) ==
    LET override == OverrideScan(list, now)
    IN  IF override # "none" THEN override ELSE ScoreLevel(score)

----------------------------------------------------------------------------
(* Area ranking engine: calculateAreaSeverity and what it aggregates *)

\* the sub-list of the elements of list at the positions in keep
RECURSIVE Filter(_, _)
Filter(list, keep) ==
    IF list = << >> THEN << >>
    ELSE LET front == Filter(SubSeq(list, 1, Len(list) - 1), {k \in keep : k < Len(list)})
         IN  IF Len(list) \in keep THEN Append(front, list[Len(list)]) ELSE front

\* (an insertion that puts x before the elements equal to it)
InsertBeforeTies(sorted, x, field) ==
    LET p == Cardinality({k \in 1..Len(sorted) : sorted[k][field] > x[field]})
    IN  SubSeq(sorted, 1, p) \o <<x>> \o SubSeq(sorted, p + 1, Len(sorted))

\* x put into a list sorted by field, descending, after the elements not below it
InsertDesc(sorted, x, field) ==
    LET p == Cardinality({k \in 1..Len(sorted) : sorted[k][field] >= x[field]})
    IN  SubSeq(sorted, 1, p) \o <<x>> \o SubSeq(sorted, p + 1, Len(sorted))

\* a stable sort by field, descending (Array.prototype.sort is stable; so is the
\* order the rows of equal key keep here)
RECURSIVE SortDesc(_, _)
SortDesc(list, field) ==
    IF list = << >> THEN << >>
    ELSE InsertDesc(SortDesc(SubSeq(list, 1, Len(list) - 1), field), list[Len(list)], field)

countReportsBySeverity(list) ==
    [sev \in Severities |-> Cardinality({k \in 1..Len(list) : list[k].severity = sev})]

countNeedsRescue(list) == Cardinality({k \in 1..Len(list) : list[k].needsRescue})

\* (the timestamp of the first report, not the latest one)
getFirstTimestamp(list, now) ==
    IF list = << >> THEN now ELSE list[1].timestamp

getLatestTimestamp(list, now) ==
    IF list = << >> THEN now ELSE Max({list[k].timestamp : k \in 1..Len(list)})

ValidReports(list) == Filter(list, {k \in 1..Len(list) : HasCoords(list[k])})

RECURSIVE SumOf(_, _)
SumOf(list, c) ==
    IF list = << >> THEN 0 ELSE Plus(Head(list).coordinates[c], SumOf(Tail(list), c))

\* [12.8797, 121.774], the centre of the Philippines
FallbackCentroid == <<128797, 1217740>>

CentroidOfValid(validReports) ==
    IF validReports = << >> THEN Point(FallbackCentroid)
    ELSE <<Rat(SumOf(validReports, 1), Len(validReports)),
           Rat(SumOf(validReports, 2), Len(validReports))>>

calculateCentroid(list) == CentroidOfValid(ValidReports(list))

\* the closed ring of [lng, lat] positions, << >> for undefined
\* (a ring left open: four corners, the first one not repeated)
RingUnclosed(minLat, maxLat, minLng, maxLng) ==
    << <<minLng, minLat>>, <<maxLng, minLat>>, <<maxLng, maxLat>>, <<minLng, maxLat>> >>

\* the ring of the polygon, positions as [lng, lat]
Ring(minLat, maxLat, minLng, maxLng) ==
    << <<minLng, minLat>>, <<maxLng, minLat>>, <<maxLng, maxLat>>,
       <<minLng, maxLat>>, <<minLng, minLat>> >>

\* Math.min and Math.max over numbers that may be NaN: NaN when one of them is
MathMin(S) == IF NaNDegrees \in S THEN NaNDegrees ELSE Min(S)

MathMax(S) == IF NaNDegrees \in S THEN NaNDegrees ELSE Max(S)

BoundsOfValid(validReports) ==
    LET lats == {validReports[k].coordinates[1] : k \in 1..Len(validReports)}
        lngs == {validReports[k].coordinates[2] : k \in 1..Len(validReports)}
        padding == 100
    IN  IF validReports = << >> THEN << >>
        ELSE Ring(Plus(MathMin(lats \cup {900000}), -padding),
                  Plus(MathMax(lats \cup {-900000}), padding),
                  Plus(MathMin(lngs \cup {1800000}), -padding),
                  Plus(MathMax(lngs \cup {-1800000}), padding))

calculateBounds(list) == BoundsOfValid(ValidReports(list))

\* Math.round(score * 100) / 100, in hundredths
RoundedScore(score) == (score + (ScoreUnit \div 200)) \div (ScoreUnit \div 100)

\* the ranking of one group; reportIds names its members for the properties
RankingWith(group, score, now) ==
    [areaType         |-> "cluster",
     severity         |-> assignSeverityLevel(score, group.reports, now),
     score            |-> RoundedScore(score),
     needsRescueCount |-> countNeedsRescue(group.reports),
     reportCounts     |-> countReportsBySeverity(group.reports),
     latestReportAt   |-> getLatestTimestamp(group.reports, now),
     bounds           |-> calculateBounds(group.reports),
     coordinates      |-> calculateCentroid(group.reports),
     reportIds        |-> [m \in 1..Len(group.reports) |-> group.reports[m].id]]

\* (a score that adds one point for every member that needs rescue)
RankingOfRescueBonus(group, now) ==
    RankingWith(group,
                calculateSeverityScore(group.reports, now)
                + countNeedsRescue(group.reports) * ScoreUnit,
                now)

RankingOf(group, now) == RankingWith(group, calculateSeverityScore(group.reports, now), now)

\* (a filter that drops the reports whose timestamp is the cutoff itself)
RecentReportsStrict(list, timeWindowHours, now) ==
    Filter(list, {k \in 1..Len(list) : list[k].timestamp > now - timeWindowHours})

\* `reports.filter(r => r.timestamp >= cutoffTime)`
RecentReports(list, timeWindowHours, now) ==
    Filter(list, {k \in 1..Len(list) : list[k].timestamp >= now - timeWindowHours})

\* `groups.map(...)`: the rankings in cluster-discovery order
RankingsOf(gs, now) == [g \in 1..Len(gs) |-> RankingOf(gs[g], now)]

AreaRankings(list, timeWindowHours, now) ==
    RankingsOf(groupReportsByArea(RecentReports(list, timeWindowHours, now)), now)

\* (a sort that reverses the rankings of equal score)
SortRankingsUnstable(rankings) ==
    LET Ins[n \in 0..Len(rankings)] ==
            IF n = 0 THEN << >> ELSE InsertBeforeTies(Ins[n - 1], rankings[n], "score")
    IN  Ins[Len(rankings)]

\* `rankings.sort((a, b) => b.score - a.score)`
SortRankings(rankings) == SortDesc(rankings, "score")

calculateAreaSeverity(list, timeWindowHours, now) ==
    SortRankings(AreaRankings(list, timeWindowHours, now))

----------------------------------------------------------------------------
(* Point-severity resolver *)

SeverityOfNearby(nearby, now) ==
    IF nearby = << >> THEN "low"
    ELSE assignSeverityLevel(calculateSeverityScore(nearby, now), nearby, now)

\* `radiusMeters: number = 2500`
DefaultRadiusMeters == 2500

\* (a neighbourhood that leaves out the reports at exactly the radius)
SeverityForLocationExclusive(list, coords, now, radiusMeters) ==
    IF coords = NoCoords THEN "low"
    ELSE SeverityOfNearby(
            Filter(list, {k \in 1..Len(list) :
                /\ HasCoords(list[k])
                /\ ~RatLeq(<<radiusMeters * 1000, 1>>,
                           haversineMeters(Point(coords), Point(list[k].coordinates)))}),
            now)

calculateSeverityForLocation(list, coords, now, radiusMeters) ==
    IF coords = NoCoords THEN "low"
    ELSE SeverityOfNearby(
            Filter(list, {k \in 1..Len(list) :
                /\ HasCoords(list[k])
                /\ WithinMeters(haversineMeters(Point(coords), Point(list[k].coordinates)),
                                radiusMeters)}),
            now)

----------------------------------------------------------------------------
(* The area-severity endpoint: api/areas/severity.ts *)

NaN == [nan |-> TRUE, value |-> 0]

Num(n) == [nan |-> FALSE, value |-> n]

\* query values: none, a decimal integer, or text that is no number
QueryAbsent == [kind |-> "absent", value |-> 0]

QueryText == [kind |-> "text", value |-> 0]

QueryInt(n) == [kind |-> "int", value |-> n]

\* parseInt(raw || fallback)
ParseIntOr(raw, fallback) ==
    IF raw.kind = "absent" THEN Num(fallback)
    ELSE IF raw.kind = "int" THEN Num(raw.value)
    ELSE NaN

\* `if (x > hi) x = hi; if (x < lo) x = lo;` (every comparison with NaN is false)
Clamp(x, lo, hi) ==
    LET capped == IF ~x.nan /\ x.value > hi THEN Num(hi) ELSE x
    IN  IF ~capped.nan /\ capped.value < lo THEN Num(lo) ELSE capped

\* rankings.slice(0, limit): a NaN end counts as 0
SliceTo(list, limit) ==
    IF limit.nan THEN << >>
    ELSE SubSeq(list, 1, IF limit.value < Len(list) THEN limit.value ELSE Len(list))

\* dbRecordToUserReport; the coordinates column is taken as already parsed
dbRecordToUserReport(row) ==
    [id |-> row.id, coordinates |-> row.coordinates, severity |-> row.severity,
     timestamp |-> row.timestamp, needsRescue |-> row.needs_rescue, source |-> row.source]

\* select * where deleted_at is null and timestamp >= cutoff order by timestamp desc
FetchReports(table, cutoff) ==
    SortDesc(Filter(table, {k \in 1..Len(table) :
                 table[k].deleted_at = << >> /\ table[k].timestamp >= cutoff}), "timestamp")

\* (a handler that ranks the fetched reports with their stored severities)
WithStoredSeverity(baseReports, now) == baseReports

\* the reports the handler hands to calculateAreaSeverity: every fetched report
\* with its severity recomputed from its neighbourhood
WithLocationSeverity(baseReports, now) ==
    [k \in 1..Len(baseReports) |->
        [baseReports[k] EXCEPT !.severity =
            calculateSeverityForLocation(baseReports, baseReports[k].coordinates, now,
                                         DefaultRadiusMeters)]]

RecomputedReports(rows, now) ==
    WithLocationSeverity([k \in 1..Len(rows) |-> dbRecordToUserReport(rows[k])], now)

----------------------------------------------------------------------------
(* Reports *)

Report(id, coords, severity, timestamp) ==
    [id |-> id, coordinates |-> coords, severity |-> severity, timestamp |-> timestamp,
     needsRescue |-> FALSE, source |-> "community"]

MkReport(id, coords) == Report(id, coords, "low", NowHours)

\* Snapshots of n reports.  Reports are numbered by position (NoCoords first, then
\* south to north); every list of n reports is an ordering of such a snapshot.
CoordsRank(c) == IF c = NoCoords THEN -1 ELSE c[1]

Snapshots(n) ==
    {f \in [1..n -> CoordsSet] : \A i \in 1..n, j \in 1..n :
        i < j => CoordsRank(f[i]) <= CoordsRank(f[j])}

Orderings(n) == {p \in [1..n -> 1..n] : \A i \in 1..n, j \in 1..n : i # j => p[i] # p[j]}

----------------------------------------------------------------------------
(* The parts of the state at rest *)

ClusterIdle ==
    /\ reports = << >>
    /\ pc = [i \in Invocations |-> "idle"]
    /\ input = [i \in Invocations |-> << >>]
    /\ idx = [i \in Invocations |-> 0]
    /\ groups = [i \in Invocations |-> << >>]
    /\ hist = [i \in Invocations |-> << >>]

ClsIdle ==
    /\ clsPc = "idle"
    /\ clsArgs = [score |-> 0, reports |-> << >>, now |-> NowHours]
    /\ clsResult = "none"

NoCall == [kind |-> "none"]

NoResponse == [status |-> 0, rankings |-> << >>]

SubmitIdle ==
    /\ sbPc = "idle"
    /\ sbCall = NoCall
    /\ sbSeverity = "none"
    /\ sbStored = << >>
    /\ sbResp = 0
    /\ sbReport = << >>
    /\ sbBroadcast = "none"

MaIdle ==
    /\ maPc = "idle"
    /\ maInput = << >>
    /\ maClusters = << >>
    /\ maBest = << >>

TwinIdle ==
    /\ twReports = << >>
    /\ twGroups = << >>
    /\ twSorted = << >>

BoundsIdle ==
    /\ bdPc = "idle"
    /\ bdInput = << >>
    /\ bdResult = << >>

NoneSettled == [seq |-> 0, ok |-> FALSE, answer |-> << >>, prev |-> << >>]

\* the client before App is mounted: the initial state of the two hooks
ClientUnmounted ==
    /\ appPc = "unmounted"
    /\ events = 0
    /\ ticks = 0
    /\ rankingsHeld = << >>
    /\ rankIssued = 0
    /\ rankFlight = {}
    /\ rankLast = NoneSettled
    /\ reportsHeld = << >>
    /\ total = 0
    /\ hasMore = FALSE
    /\ repIssued = 0
    /\ repFlight = {}
    /\ repAnswers = {}
    /\ repLast = NoneSettled

ClientIdle == ClientUnmounted /\ autoRefresh = FALSE

PagasaEndpoints == {"lightning", "current_weather"}

NoPagasaResponse == [status |-> 0]

PagasaIdle ==
    /\ cache = [e \in PagasaEndpoints |-> << >>]
    /\ pgPc = "idle"
    /\ pgCall = NoCall
    /\ pgResp = NoPagasaResponse

RankIdle ==
    /\ db = << >>
    /\ rkPc = "idle"
    /\ rkCall = NoCall
    /\ rkGroups = << >>
    /\ rkUnsorted = << >>
    /\ rkSorted = << >>
    /\ rkResp = NoResponse

----------------------------------------------------------------------------
(* The state machine: invocations of groupReportsByArea on orderings of the snapshot *)

Init ==
    /\ \E n \in 0..MaxReports : \E f \in Snapshots(n) :
          reports = [i \in 1..n |-> MkReport(i, f[i])]
    /\ pc = [i \in Invocations |-> "idle"]
    /\ input = [i \in Invocations |-> << >>]
    /\ idx = [i \in Invocations |-> 0]
    /\ groups = [i \in Invocations |-> << >>]
    /\ hist = [i \in Invocations |-> << >>]
    /\ ClsIdle
    /\ RankIdle
    /\ SubmitIdle
    /\ MaIdle
    /\ TwinIdle
    /\ BoundsIdle
    /\ ClientIdle
    /\ PagasaIdle

\* the list rotated left by r places
Rotated(list, r) == [k \in 1..Len(list) |-> list[((k - 1 + r) % Len(list)) + 1]]

\* A caller invokes groupReportsByArea(list).  Invocations are numbered in call order:
\* the first is given any ordering of the snapshot, a later one the first one's list
\* again or a rotation of it.
Call(i) ==
    /\ pc[i] = "idle"
    /\ \A j \in Invocations : j < i => pc[j] # "idle"
    /\ IF i = 1
       THEN \E p \in Orderings(Len(reports)) :
               input' = [input EXCEPT ![i] = [k \in 1..Len(reports) |-> reports[p[k]]]]
       ELSE \E r \in 0..Len(reports) :
               input' = [input EXCEPT ![i] = Rotated(input[1], r)]
    /\ \E j \in Invocations :
          /\ j # i
          /\ groups' = [groups EXCEPT ![i] = FreshGroups(groups[j])]
    /\ hist' = [hist EXCEPT ![i] = <<groups'[i]>>]
    /\ idx' = [idx EXCEPT ![i] = 0]
    /\ pc' = [pc EXCEPT ![i] = "loop"]
    /\ UNCHANGED <<reports, clsVars, rankVars, submitVars, maVars, twVars, bdVars, clientVars, pgVars>>

\* one iteration of `for (const report of reports)`
LoopStep(i) ==
    /\ pc[i] = "loop"
    /\ idx[i] < Len(input[i])
    /\ groups' = [groups EXCEPT ![i] = ProcessReport(@, input[i][idx[i] + 1])]
    /\ hist' = [hist EXCEPT ![i] = Append(@, groups'[i])]
    /\ idx' = [idx EXCEPT ![i] = @ + 1]
    /\ UNCHANGED <<reports, pc, input, clsVars, rankVars, submitVars, maVars, twVars, bdVars, clientVars, pgVars>>

\* `return groups`
Return(i) ==
    /\ pc[i] = "loop"
    /\ idx[i] = Len(input[i])
    /\ pc' = [pc EXCEPT ![i] = "done"]
    /\ UNCHANGED <<reports, input, idx, groups, hist, clsVars, rankVars, submitVars, maVars, twVars, bdVars, clientVars, pgVars>>

Next == \E i \in Invocations : Call(i) \/ LoopStep(i) \/ Return(i)

Spec == Init /\ [][Next]_vars

----------------------------------------------------------------------------
(* Calls of assignSeverityLevel *)

\* ages (hours) on both sides of each recency threshold
ClsAges == {1, 6, 11, 12, 23, 24}

\* scores on both sides of each score threshold, in hundredths
ClsScores == {s * (ScoreUnit \div 100) : s \in {0, 290, 299, 300, 590, 599, 600, 1000, 1199, 1200, 2000}}

ClsKinds == Severities \X ClsAges

\* the lists of up to MaxGroupLen reports, report k with id k
ClsLists ==
    UNION {{[k \in 1..n |-> Report(k, <<BaseLat, Lng>>, f[k][1], NowHours - f[k][2])] :
              f \in [1..n -> ClsKinds]} : n \in 0..MaxGroupLen}

\* ten low reports of age 0
TenLowReports == [k \in 1..10 |-> Report(k, <<BaseLat, Lng>>, "low", NowHours)]

\* two critical reports of age 6 h, alone and followed by a medium report of age 1 h
TwoOldCriticals == [k \in 1..2 |-> Report(k, <<BaseLat, Lng>>, "critical", NowHours - 6)]

OldCriticalsThenMedium ==
    Append(TwoOldCriticals, Report(3, <<BaseLat, Lng>>, "medium", NowHours - 1))

InitClassify == ClusterIdle /\ ClsIdle /\ RankIdle /\ SubmitIdle /\ MaIdle /\ TwinIdle
                /\ BoundsIdle /\ ClientIdle /\ PagasaIdle

\* a caller passes any score with the list
AssignCall ==
    /\ clsPc = "idle"
    /\ \E score \in ClsScores : \E list \in ClsLists :
          /\ clsArgs' = [score |-> score, reports |-> list, now |-> NowHours]
          /\ clsResult' = assignSeverityLevel(score, list, NowHours)
    /\ clsPc' = "done"
    /\ UNCHANGED <<clusterVars, rankVars, submitVars, maVars, twVars, bdVars, clientVars, pgVars>>

\* a caller passes the list's own score, as calculateAreaSeverity and
\* calculateSeverityForLocation do
ScoreAndAssign ==
    /\ clsPc = "idle"
    /\ \E list \in ClsLists \cup {TenLowReports, TwoOldCriticals, OldCriticalsThenMedium} :
          LET score == calculateSeverityScore(list, NowHours)
          IN  /\ clsArgs' = [score |-> score, reports |-> list, now |-> NowHours]
              /\ clsResult' = assignSeverityLevel(score, list, NowHours)
    /\ clsPc' = "done"
    /\ UNCHANGED <<clusterVars, rankVars, submitVars, maVars, twVars, bdVars, clientVars, pgVars>>

NextClassify == AssignCall \/ ScoreAndAssign

SpecClassify == InitClassify /\ [][NextClassify]_vars

----------------------------------------------------------------------------
(* Calls of the ranking engine and requests to the area-severity endpoint *)

\* three places more than 2500 m from each other, north of BaseLat
RankOffsets == {0, 300, 600}

RowCoords == {<<BaseLat + o, Lng>> : o \in RankOffsets}

\* Located rows of stored severity low or critical, one hour old; a high row of 30
\* hours; a row without coordinates; a deleted row.
RowKinds ==
    {[coordinates |-> c, severity |-> sev, age |-> 1, deleted |-> FALSE] :
        c \in RowCoords, sev \in {"low", "critical"}}
    \cup {[coordinates |-> <<BaseLat, Lng>>, severity |-> "high", age |-> 30, deleted |-> FALSE],
          [coordinates |-> NoCoords, severity |-> "critical", age |-> 1, deleted |-> FALSE],
          [coordinates |-> <<BaseLat, Lng>>, severity |-> "critical", age |-> 1,
           deleted |-> TRUE]}

\* a row of a kind; needs_rescue is false and source is 'community' (the column
\* defaults) for the kinds that do not say
DbRow(id, kind) ==
    [id |-> id, coordinates |-> kind.coordinates, severity |-> kind.severity,
     timestamp |-> NowHours - kind.age,
     needs_rescue |-> IF "needs_rescue" \in DOMAIN kind THEN kind.needs_rescue ELSE FALSE,
     source |-> IF "source" \in DOMAIN kind THEN kind.source ELSE "community",
     deleted_at |-> IF kind.deleted THEN <<NowHours>> ELSE << >>]

Tables == UNION {{[k \in 1..n |-> DbRow(k, f[k])] : f \in [1..n -> RowKinds]} : n \in 0..MaxReports}

\* timeWindowHours and limit as they come in the query string: requests that set
\* neither, one of the two, or both
WindowQueries == {QueryAbsent, QueryText, QueryInt(-3), QueryInt(24), QueryInt(100000)}

LimitQueries == {QueryAbsent, QueryText, QueryInt(0), QueryInt(1), QueryInt(2), QueryInt(500)}

Queries ==
    {<<w, QueryAbsent>> : w \in WindowQueries}
    \cup {<<QueryAbsent, l>> : l \in LimitQueries}
    \cup {<<QueryInt(24), QueryInt(2)>>}

\* a request: its query and whether the report query of the handler fails
Requests ==
    {[query |-> q, fetchError |-> FALSE] : q \in Queries}
    \cup {[query |-> <<QueryAbsent, QueryAbsent>>, fetchError |-> TRUE]}

InitRank ==
    /\ ClusterIdle
    /\ ClsIdle
    /\ SubmitIdle
    /\ MaIdle
    /\ TwinIdle
    /\ BoundsIdle
    /\ ClientIdle
    /\ PagasaIdle
    /\ db \in Tables
    /\ rkPc = "idle"
    /\ rkCall = NoCall
    /\ rkGroups = << >>
    /\ rkUnsorted = << >>
    /\ rkSorted = << >>
    /\ rkResp = NoResponse

\* the report a caller holds that carries the values of a row
RowAsReport(row) ==
    [id |-> row.id, coordinates |-> row.coordinates, severity |-> row.severity,
     timestamp |-> row.timestamp, needsRescue |-> row.needs_rescue, source |-> row.source]

\* a direct call calculateAreaSeverity(reports, timeWindowHours), the reports being
\* those of the rows, deleted or not, in physical order
RankCall ==
    /\ rkPc = "idle"
    /\ \E timeWindowHours \in {24, 168} :
          /\ rkCall' = [kind |-> "calculateAreaSeverity",
                        reports |-> [k \in 1..Len(db) |-> RowAsReport(db[k])],
                        timeWindowHours |-> timeWindowHours]
          /\ rkGroups' = groupReportsByArea(
                             RecentReports(rkCall'.reports, timeWindowHours, NowHours))
          /\ rkUnsorted' = AreaRankings(rkCall'.reports, timeWindowHours, NowHours)
          /\ rkSorted' = calculateAreaSeverity(rkCall'.reports, timeWindowHours, NowHours)
    /\ rkResp' = NoResponse
    /\ rkPc' = "done"
    /\ UNCHANGED <<clusterVars, clsVars, submitVars, maVars, twVars, bdVars, clientVars, pgVars, db>>

\* a request with a method other than GET
HandleOtherMethod ==
    /\ rkPc = "idle"
    /\ rkCall' = [kind |-> "request", method |-> "POST"]
    /\ rkResp' = [status |-> 405, rankings |-> << >>]
    /\ rkPc' = "done"
    /\ UNCHANGED <<clusterVars, clsVars, submitVars, maVars, twVars, bdVars, clientVars, pgVars, db, rkGroups, rkUnsorted, rkSorted>>

\* GET /api/areas/severity?timeWindowHours=..&limit=.., the report query failing or not
HandleGet ==
    /\ rkPc = "idle"
    /\ \E req \in Requests :
          LET fetchError == req.fetchError
              timeWindowHours == Clamp(ParseIntOr(req.query[1], 168), 1, 720)
              limit == Clamp(ParseIntOr(req.query[2], 50), 1, 100)
          IN  IF timeWindowHours.nan \/ fetchError
              THEN \* cutoffTime.toISOString() throws, or the query returns an error
                   /\ rkCall' = [kind |-> "request", method |-> "GET",
                                 timeWindowHours |-> timeWindowHours, limit |-> limit,
                                 fetchError |-> fetchError, reports |-> << >>]
                   /\ rkResp' = [status |-> 500, rankings |-> << >>]
                   /\ UNCHANGED <<rkGroups, rkUnsorted, rkSorted>>
              ELSE /\ rkCall' = [kind |-> "request", method |-> "GET",
                                 timeWindowHours |-> timeWindowHours, limit |-> limit,
                                 fetchError |-> fetchError,
                                 reports |-> RecomputedReports(
                                     FetchReports(db, NowHours - timeWindowHours.value),
                                     NowHours)]
                   /\ rkGroups' = groupReportsByArea(
                                      RecentReports(rkCall'.reports, timeWindowHours.value,
                                                    NowHours))
                   /\ rkUnsorted' = AreaRankings(rkCall'.reports, timeWindowHours.value, NowHours)
                   /\ rkSorted' = calculateAreaSeverity(rkCall'.reports, timeWindowHours.value,
                                                        NowHours)
                   /\ rkResp' = [status |-> 200, rankings |-> SliceTo(rkSorted', limit)]
    /\ rkPc' = "done"
    /\ UNCHANGED <<clusterVars, clsVars, submitVars, maVars, twVars, bdVars, clientVars, pgVars, db>>

NextRank == RankCall \/ HandleOtherMethod \/ HandleGet

SpecRank == InitRank /\ [][NextRank]_vars

\* the rank state machine at rest on one of the given tables
RankStartsOn(tables) ==
    /\ ClusterIdle
    /\ ClsIdle
    /\ SubmitIdle
    /\ MaIdle
    /\ TwinIdle
    /\ BoundsIdle
    /\ ClientIdle
    /\ PagasaIdle
    /\ db \in tables
    /\ rkPc = "idle"
    /\ rkCall = NoCall
    /\ rkGroups = << >>
    /\ rkUnsorted = << >>
    /\ rkSorted = << >>
    /\ rkResp = NoResponse

TablesOf(kinds) ==
    UNION {{[k \in 1..n |-> DbRow(k, f[k])] : f \in [1..n -> kinds]} : n \in 0..MaxReports}

----------------------------------------------------------------------------
(* The same calls and requests on rows around the cutoff of a 24-hour window *)

\* Low rows at two places more than 2500 m apart, with a timestamp one hour after
\* now, 24 hours before now and 25 hours before now; a row without coordinates
\* 24 hours old.
WindowRowKinds ==
    {[coordinates |-> c, severity |-> "low", age |-> a, deleted |-> FALSE] :
        c \in {<<BaseLat, Lng>>, <<BaseLat + 600, Lng>>}, a \in {-1, 24, 25}}
    \cup {[coordinates |-> NoCoords, severity |-> "low", age |-> 24, deleted |-> FALSE]}

InitWindow == RankStartsOn(TablesOf(WindowRowKinds))

SpecWindow == InitWindow /\ [][NextRank]_vars

----------------------------------------------------------------------------
(* Calls of the point-severity resolver *)

\* Rows one hour old, low or critical, 1336 m, 2783 m and 3340 m north of BaseLat,
\* and a critical row without coordinates.
LocateRowKinds ==
    {[coordinates |-> <<BaseLat + o, Lng>>, severity |-> sev, age |-> 1, deleted |-> FALSE] :
        o \in {120, 250, 300}, sev \in {"low", "critical"}}
    \cup {[coordinates |-> NoCoords, severity |-> "critical", age |-> 1, deleted |-> FALSE]}

\* the radius left to its default, and a radius that one of the rows lies at exactly
LocateRadii == {DefaultRadiusMeters, 2783}

InitLocate == RankStartsOn(TablesOf(LocateRowKinds))

\* a direct call calculateSeverityForLocation(reports, coords, now, radiusMeters), the
\* reports being those of the rows
LocationCall ==
    /\ sbPc = "idle"
    /\ \E coords \in {NoCoords, <<BaseLat, Lng>>} : \E radiusMeters \in LocateRadii :
          /\ sbCall' = [kind |-> "calculateSeverityForLocation",
                        reports |-> [k \in 1..Len(db) |-> RowAsReport(db[k])],
                        coords |-> coords, now |-> NowHours, radiusMeters |-> radiusMeters]
          /\ sbSeverity' = calculateSeverityForLocation(sbCall'.reports, coords, NowHours,
                                                        radiusMeters)
    /\ sbPc' = "done"
    /\ UNCHANGED <<clusterVars, clsVars, rankVars, maVars, twVars, bdVars, clientVars, pgVars, sbStored, sbResp,
                   sbReport, sbBroadcast>>

NextLocate == LocationCall

SpecLocate == InitLocate /\ [][NextLocate]_vars

----------------------------------------------------------------------------
(* Direct calls of calculateAreaSeverity on reports that differ in severity,     *)
(* timestamp and needsRescue within one cluster                                  *)

\* Two places within 2500 m of each other and one far from both, a row without
\* coordinates; the row 30 hours old is outside a window of 24 hours.
StatsRowKinds ==
    {[coordinates |-> <<BaseLat, Lng>>, severity |-> "low", age |-> 1,
      needs_rescue |-> FALSE, deleted |-> FALSE],
     [coordinates |-> <<BaseLat, Lng>>, severity |-> "critical", age |-> 30,
      needs_rescue |-> TRUE, deleted |-> FALSE],
     [coordinates |-> <<BaseLat + 120, Lng>>, severity |-> "medium", age |-> 2,
      needs_rescue |-> TRUE, deleted |-> FALSE],
     [coordinates |-> <<BaseLat + 600, Lng>>, severity |-> "high", age |-> 1,
      needs_rescue |-> FALSE, deleted |-> FALSE],
     [coordinates |-> <<BaseLat + 600, Lng>>, severity |-> "low", age |-> 3,
      needs_rescue |-> TRUE, deleted |-> FALSE],
     [coordinates |-> NoCoords, severity |-> "critical", age |-> 1,
      needs_rescue |-> TRUE, deleted |-> FALSE]}

InitStats == RankStartsOn(TablesOf(StatsRowKinds))

NextArea == RankCall

SpecStats == InitStats /\ [][NextArea]_vars

----------------------------------------------------------------------------
(* Two direct calls of calculateAreaSeverity, on a list and on a list that       *)
(* differs from it in the needsRescue and source fields only                     *)

ReportSources == {"community", "pagasa"}

TwinRowKinds ==
    {[coordinates |-> <<BaseLat, Lng>>, severity |-> "low", age |-> 1,
      needs_rescue |-> FALSE, source |-> "community", deleted |-> FALSE],
     [coordinates |-> <<BaseLat + 120, Lng>>, severity |-> "critical", age |-> 30,
      needs_rescue |-> TRUE, source |-> "pagasa", deleted |-> FALSE],
     [coordinates |-> <<BaseLat + 600, Lng>>, severity |-> "high", age |-> 1,
      needs_rescue |-> FALSE, source |-> "community", deleted |-> FALSE],
     [coordinates |-> NoCoords, severity |-> "low", age |-> 1,
      needs_rescue |-> TRUE, source |-> "community", deleted |-> FALSE]}

InitTwin == RankStartsOn(TablesOf(TwinRowKinds))

\* the reports of a list with needsRescue and source set anew
WithFlags(list, flags) ==
    [k \in 1..Len(list) |->
        [list[k] EXCEPT !.needsRescue = flags[k][1], !.source = flags[k][2]]]

\* calculateAreaSeverity(reports, timeWindowHours) and
\* calculateAreaSeverity(twin, timeWindowHours) at the same now
RankCallTwice ==
    /\ rkPc = "idle"
    /\ \E timeWindowHours \in {24, 168},
          flags \in [1..Len(db) -> BOOLEAN \X ReportSources] :
          /\ rkCall' = [kind |-> "calculateAreaSeverity twice",
                        reports |-> [k \in 1..Len(db) |-> RowAsReport(db[k])],
                        timeWindowHours |-> timeWindowHours]
          /\ rkGroups' = groupReportsByArea(
                             RecentReports(rkCall'.reports, timeWindowHours, NowHours))
          /\ rkUnsorted' = RankingsOf(rkGroups', NowHours)
          /\ rkSorted' = SortRankings(rkUnsorted')
          /\ twReports' = WithFlags(rkCall'.reports, flags)
          /\ twGroups' = groupReportsByArea(
                             RecentReports(twReports', timeWindowHours, NowHours))
          /\ twSorted' = SortRankings(RankingsOf(twGroups', NowHours))
    /\ rkResp' = NoResponse
    /\ rkPc' = "done"
    /\ UNCHANGED <<clusterVars, clsVars, submitVars, maVars, bdVars, clientVars, pgVars, db>>

NextTwin == RankCallTwice

SpecTwin == InitTwin /\ [][NextTwin]_vars

----------------------------------------------------------------------------
(* Direct calls of calculateAreaSeverity and calculateSeverityForLocation on     *)
(* reports whose latitude or longitude is NaN                                    *)

\* Low rows one hour old at BaseLat and 1336 m north of it, a row whose latitude is
\* NaN, a row whose longitude is NaN, and a row without coordinates.
NonFiniteRowKinds ==
    {[coordinates |-> c, severity |-> "low", age |-> 1, deleted |-> FALSE] :
        c \in {<<BaseLat, Lng>>, <<BaseLat + 120, Lng>>, <<NaNDegrees, Lng>>,
               <<BaseLat, NaNDegrees>>, NoCoords}}

InitNonFinite == RankStartsOn(TablesOf(NonFiniteRowKinds))

NextDirect == RankCall \/ LocationCall

SpecNonFinite == InitNonFinite /\ [][NextDirect]_vars

----------------------------------------------------------------------------
(* The submission endpoint.  Two handlers of the repository take POST            *)
(* /api/reports/submit (api/reports/submit.ts and a variant of it that resolves  *)
(* the severity first), and two variants of validateReportSubmission exist.  A   *)
(* text field of the body is kept as its trimmed length, a field that is not set *)
(* as "undefined".                                                               *)

PH_BOUNDS == [north |-> 213000, south |-> 45000, east |-> 1270000, west |-> 1160000]

OutOfBounds(coords) ==
    \/ coords[1] < PH_BOUNDS.south \/ coords[1] > PH_BOUNDS.north
    \/ coords[2] < PH_BOUNDS.west \/ coords[2] > PH_BOUNDS.east

\* validateReportSubmission, the variant that takes neither type nor severity from
\* the client and requires coordinates
validateReportSubmission(body) ==
    LET errors ==
            (IF body.reporterName = 0 \/ body.reporterName > 200 THEN {"reporterName"} ELSE {})
            \cup (IF body.description = 0 \/ body.description > 2000
                  THEN {"description"} ELSE {})
            \cup (IF Len(body.coordinates) # 2 THEN {"coordinates"}
                  ELSE IF OutOfBounds(body.coordinates) THEN {"coordinates"} ELSE {})
            \cup (IF body.needsRescue \notin {"undefined", "true", "false"}
                  THEN {"needsRescue"} ELSE {})
    IN  [valid |-> errors = {},
         data  |-> [location |-> "undefined", severity |-> "undefined",
                    coordinates |-> body.coordinates, needsRescue |-> body.needsRescue]]

\* validateReportSubmission, the variant that requires a location, lets the client
\* send a severity and leaves the coordinates optional
validateReportSubmissionLegacy(body) ==
    LET errors ==
            (IF body.reporterName = 0 \/ body.reporterName > 200 THEN {"reporterName"} ELSE {})
            \cup (IF body.location = 0 \/ body.location > 500 THEN {"location"} ELSE {})
            \cup (IF body.severity \notin {"undefined"} \cup Severities
                  THEN {"severity"} ELSE {})
            \cup (IF body.description = 0 \/ body.description > 2000
                  THEN {"description"} ELSE {})
            \cup (IF body.coordinates = NoCoords THEN {}
                  ELSE IF Len(body.coordinates) # 2 THEN {"coordinates"}
                  ELSE IF OutOfBounds(body.coordinates) THEN {"coordinates"} ELSE {})
            \cup (IF body.needsRescue \notin {"undefined", "true", "false"}
                  THEN {"needsRescue"} ELSE {})
    IN  [valid |-> errors = {},
         data  |-> [location |-> body.location, severity |-> body.severity,
                    coordinates |-> body.coordinates, needsRescue |-> body.needsRescue]]

Validate(variant, body) ==
    IF variant = "legacy" THEN validateReportSubmissionLegacy(body)
    ELSE validateReportSubmission(body)

\* userReportToDbRecord: the point goes out as "POINT(lng lat)", kept as <<lng, lat>>;
\* a report without two coordinates gets no coordinates column
userReportToDbRecord(report) ==
    [severity     |-> report.severity,
     coordinates  |-> IF Len(report.coordinates) = 2
                      THEN <<report.coordinates[2], report.coordinates[1]>> ELSE << >>,
     needs_rescue |-> report.needsRescue = "true",
     source       |-> "community"]

\* the row the insert leaves in the table: the point text read as <<lat, lng>>, the
\* severity as sent ("undefined" when the record carries none and the column is
\* left to its default)
InsertedRow(dbRecord, id, now) ==
    [id |-> id,
     coordinates |-> IF Len(dbRecord.coordinates) = 2
                     THEN <<dbRecord.coordinates[2], dbRecord.coordinates[1]>> ELSE << >>,
     severity |-> dbRecord.severity, timestamp |-> now,
     needs_rescue |-> dbRecord.needs_rescue, source |-> "community", deleted_at |-> << >>]

\* the recent reports the resolving handler works with: those of the last 168 hours,
\* or none when the query failed (the error is only logged)
RecentForSubmission(table, fetchError, now) ==
    IF fetchError THEN << >>
    ELSE [k \in 1..Len(FetchReports(table, now - 168)) |->
             dbRecordToUserReport(FetchReports(table, now - 168)[k])]

\* Rows one hour old: critical at BaseLat, low 1336 m north of it, critical 3340 m
\* north of it; a deleted critical row at BaseLat; a critical row at BaseLat older
\* than the 168 hours the handler looks back.
SubmitRowKinds ==
    {[coordinates |-> <<BaseLat, Lng>>, severity |-> "critical", age |-> 1, deleted |-> FALSE],
     [coordinates |-> <<BaseLat + 120, Lng>>, severity |-> "low", age |-> 1, deleted |-> FALSE],
     [coordinates |-> <<BaseLat + 300, Lng>>, severity |-> "critical", age |-> 1,
      deleted |-> FALSE],
     [coordinates |-> <<BaseLat, Lng>>, severity |-> "critical", age |-> 1, deleted |-> TRUE],
     [coordinates |-> <<BaseLat, Lng>>, severity |-> "critical", age |-> 169,
      deleted |-> FALSE]}

GoodBody ==
    [reporterName |-> 3, location |-> 6, description |-> 5, coordinates |-> <<BaseLat, Lng>>,
     severity |-> "undefined", needsRescue |-> "undefined"]

\* request bodies: a good one, good ones that also carry a severity or a rescue flag,
\* and bodies with one field missing or wrong
SubmitBodies ==
    {GoodBody,
     [GoodBody EXCEPT !.severity = "critical"],
     [GoodBody EXCEPT !.severity = "low"],
     [GoodBody EXCEPT !.severity = "bogus"],
     [GoodBody EXCEPT !.needsRescue = "true"],
     [GoodBody EXCEPT !.needsRescue = "text"],
     [GoodBody EXCEPT !.coordinates = NoCoords],
     [GoodBody EXCEPT !.coordinates = <<BaseLat + 100000, Lng>>],
     [GoodBody EXCEPT !.reporterName = 0],
     [GoodBody EXCEPT !.location = 0],
     [GoodBody EXCEPT !.description = 2001]}

\* a request: its body, and whether the query for recent reports and the insert fail
SubmitRequests ==
    {[body |-> b, fetchError |-> FALSE, insertError |-> FALSE] : b \in SubmitBodies}
    \cup {[body |-> b, fetchError |-> TRUE, insertError |-> FALSE] :
             b \in {GoodBody, [GoodBody EXCEPT !.severity = "critical"]}}
    \cup {[body |-> GoodBody, fetchError |-> FALSE, insertError |-> TRUE]}

ValidationVariants == {"current", "legacy"}

InitSubmit == RankStartsOn(TablesOf(SubmitRowKinds))

\* a request with a method other than POST, to either handler
SubmitOtherMethod ==
    /\ sbPc = "idle"
    /\ sbCall' = [kind |-> "submit", method |-> "GET"]
    /\ sbResp' = 405
    /\ sbPc' = "done"
    /\ UNCHANGED <<clusterVars, clsVars, rankVars, maVars, twVars, bdVars, clientVars, pgVars, sbSeverity, sbStored,
                   sbReport, sbBroadcast>>

\* (a handler that lets a failed broadcast fail the request)
InsertAndRespondStrict(dbRecord, insertError, broadcastThrows) ==
    IF insertError
    THEN /\ sbResp' = 500
         /\ UNCHANGED <<db, sbStored, sbReport, sbBroadcast>>
    ELSE /\ db' = Append(db, InsertedRow(dbRecord, Len(db) + 1, NowHours))
         /\ sbStored' = <<db'[Len(db')]>>
         /\ sbBroadcast' = IF broadcastThrows THEN "failed" ELSE "sent"
         /\ sbReport' = IF broadcastThrows THEN << >>
                        ELSE <<dbRecordToUserReport(db'[Len(db')])>>
         /\ sbResp' = IF broadcastThrows THEN 500 ELSE 201

\* what both handlers do from the insert on: 500 when the insert fails; else the row
\* is in the table, the report is read back from it, the 'new_report' broadcast is
\* tried inside its own try/catch (a failure is only logged), and the answer is 201
\* with the report
InsertAndRespond(dbRecord, insertError, broadcastThrows) ==
    IF insertError
    THEN /\ sbResp' = 500
         /\ UNCHANGED <<db, sbStored, sbReport, sbBroadcast>>
    ELSE /\ db' = Append(db, InsertedRow(dbRecord, Len(db) + 1, NowHours))
         /\ sbStored' = <<db'[Len(db')]>>
         /\ sbReport' = <<dbRecordToUserReport(db'[Len(db')])>>
         /\ sbBroadcast' = IF broadcastThrows THEN "failed" ELSE "sent"
         /\ sbResp' = 201

\* POST to the handler that resolves the severity of the new report first
SubmitResolving ==
    /\ sbPc = "idle"
    /\ \E req \in SubmitRequests : \E variant \in ValidationVariants :
      \E broadcastThrows \in BOOLEAN :
          /\ sbCall' = [kind |-> "submit", method |-> "POST", handler |-> "resolving",
                        validation |-> variant, body |-> req.body,
                        broadcastThrows |-> broadcastThrows,
                        fetchError |-> req.fetchError, insertError |-> req.insertError,
                        recentReports |-> RecentForSubmission(db, req.fetchError, NowHours)]
          /\ IF ~Validate(variant, req.body).valid
             THEN /\ sbResp' = 400
                  /\ UNCHANGED <<db, sbSeverity, sbStored, sbReport, sbBroadcast>>
             ELSE /\ sbSeverity' = calculateSeverityForLocation(
                                       sbCall'.recentReports,
                                       Validate(variant, req.body).data.coordinates,
                                       NowHours, DefaultRadiusMeters)
                  /\ InsertAndRespond(
                        userReportToDbRecord(
                            [Validate(variant, req.body).data EXCEPT !.severity = sbSeverity']),
                        req.insertError, broadcastThrows)
    /\ sbPc' = "done"
    /\ UNCHANGED <<clusterVars, clsVars, maVars, twVars, bdVars, clientVars, pgVars, rkPc, rkCall, rkGroups, rkUnsorted, rkSorted,
                   rkResp>>

\* POST to api/reports/submit.ts, which stores the validated data as they are
SubmitAsGiven ==
    /\ sbPc = "idle"
    /\ \E req \in SubmitRequests : \E variant \in ValidationVariants :
      \E broadcastThrows \in BOOLEAN :
          /\ ~req.fetchError
          /\ sbCall' = [kind |-> "submit", method |-> "POST", handler |-> "as given",
                        validation |-> variant, body |-> req.body,
                        broadcastThrows |-> broadcastThrows,
                        fetchError |-> FALSE, insertError |-> req.insertError,
                        recentReports |-> << >>]
          /\ IF ~Validate(variant, req.body).valid
             THEN /\ sbResp' = 400
                  /\ UNCHANGED <<db, sbStored, sbReport, sbBroadcast>>
             ELSE InsertAndRespond(userReportToDbRecord(Validate(variant, req.body).data),
                                   req.insertError, broadcastThrows)
    /\ sbPc' = "done"
    /\ UNCHANGED <<clusterVars, clsVars, maVars, twVars, bdVars, clientVars, pgVars, rkPc, rkCall, rkGroups, rkUnsorted, rkSorted,
                   rkResp, sbSeverity>>

NextSubmit == SubmitOtherMethod \/ SubmitResolving \/ SubmitAsGiven

SpecSubmit == InitSubmit /\ [][NextSubmit]_vars

----------------------------------------------------------------------------
(* The same calls and requests on a critical report and a low report 100 m apart *)

\* 100 m north of BaseLat, in units of 1e-4 degree (9 units are 100.2 m)
HundredMeters == 9

\* A: critical, one hour old, at X.  B: low, one hour old, 100 m from X.  A low
\* report one hour old far from both.
EndToEndRowKinds ==
    {[coordinates |-> <<BaseLat, Lng>>, severity |-> "critical", age |-> 1, deleted |-> FALSE],
     [coordinates |-> <<BaseLat + HundredMeters, Lng>>, severity |-> "low", age |-> 1,
      deleted |-> FALSE],
     [coordinates |-> <<BaseLat + 600, Lng>>, severity |-> "low", age |-> 1,
      deleted |-> FALSE]}

InitEndToEnd == RankStartsOn(TablesOf(EndToEndRowKinds))

SpecEndToEnd == InitEndToEnd /\ [][NextRank]_vars

----------------------------------------------------------------------------
(* Direct calls of calculateBounds *)

\* Reports at the corners of a box 1336 m high and 0.005 degrees wide, and without
\* coordinates.
BoundsCoords ==
    {<<BaseLat + dLat, Lng + dLng>> : dLat \in {0, 120}, dLng \in {0, 50}} \cup {NoCoords}

BoundsInputs ==
    UNION {{[k \in 1..n |-> MkReport(k, f[k])] : f \in [1..n -> BoundsCoords]} :
              n \in 0..MaxReports}

InitBounds ==
    /\ ClusterIdle
    /\ ClsIdle
    /\ RankIdle
    /\ SubmitIdle
    /\ MaIdle
    /\ TwinIdle
    /\ bdPc = "idle"
    /\ bdInput \in BoundsInputs
    /\ bdResult = << >>
    /\ ClientIdle
    /\ PagasaIdle

\* calculateBounds(reports)
BoundsCall ==
    /\ bdPc = "idle"
    /\ bdResult' = calculateBounds(bdInput)
    /\ bdPc' = "done"
    /\ UNCHANGED <<clusterVars, clsVars, rankVars, submitVars, maVars, twVars, clientVars, pgVars, bdInput>>

NextBounds == BoundsCall

SpecBounds == InitBounds /\ [][NextBounds]_vars

----------------------------------------------------------------------------
(* The "most affected area" of the reports list (ReportsList.mostAffected) *)

PH_CENTER == <<128797, 1217740>>

radiusM == 2500

\* `clusters.push({center: coords, sumLat: coords[0], sumLng: coords[1], count: 1})`
PushedCluster(coords) ==
    [center |-> Point(coords), sumLat |-> coords[1], sumLng |-> coords[2], count |-> 1]

\* the matched cluster after `count += 1`, the sums and the centre updated
GrownCluster(cluster, coords) ==
    LET count == cluster.count + 1
        sLat == Plus(cluster.sumLat, coords[1])
        sLng == Plus(cluster.sumLng, coords[2])
    IN  [center |-> <<Rat(sLat, count), Rat(sLng, count)>>,
         sumLat |-> sLat, sumLng |-> sLng, count |-> count]

\* the inner loop: the first cluster whose centre is within radiusM, 0 when none is
FirstClusterWithin(clusters, coords) ==
    LET S == {k \in 1..Len(clusters) :
                WithinMeters(haversineMeters(Point(coords), clusters[k].center), radiusM)}
    IN  IF S = {} THEN 0 ELSE Min(S)

ClustersWith(clusters, coords, matched) ==
    IF matched = 0 THEN Append(clusters, PushedCluster(coords))
    ELSE [clusters EXCEPT ![matched] = GrownCluster(@, coords)]

\* one iteration of `for (const report of reports)`, with
\* `const coords = report.coordinates ?? PH_CENTER`
MostAffectedStep(clusters, report) ==
    LET coords == IF HasCoords(report) THEN report.coordinates ELSE PH_CENTER
    IN  ClustersWith(clusters, coords, FirstClusterWithin(clusters, coords))

RECURSIVE MostAffectedClusters(_)
MostAffectedClusters(list) ==
    IF list = << >> THEN << >>
    ELSE MostAffectedStep(MostAffectedClusters(SubSeq(list, 1, Len(list) - 1)), list[Len(list)])

\* `clusters.reduce((best, current) => (current.count > best.count ? current : best))`,
\* null for no cluster
BestCluster(clusters) ==
    IF clusters = << >> THEN << >>
    ELSE LET top == Max({clusters[k].count : k \in 1..Len(clusters)})
         IN  <<clusters[Min({k \in 1..Len(clusters) : clusters[k].count = top})]>>

\* Reports on the meridian of PH_CENTER: at its latitude, 1336 m, 3006 m and 6679 m
\* north of it, and without coordinates.
ListedCoords ==
    {<<PH_CENTER[1] + o, PH_CENTER[2]>> : o \in {0, 120, 270, 600}} \cup {NoCoords}

ListedReports ==
    UNION {{[k \in 1..n |-> MkReport(k, f[k])] : f \in [1..n -> ListedCoords]} :
              n \in 0..MaxReports}

InitMostAffected ==
    /\ ClusterIdle
    /\ ClsIdle
    /\ RankIdle
    /\ SubmitIdle
    /\ TwinIdle
    /\ BoundsIdle
    /\ ClientIdle
    /\ PagasaIdle
    /\ maPc = "idle"
    /\ maInput \in ListedReports
    /\ maClusters = << >>
    /\ maBest = << >>

\* the memo computes mostAffected for the reports the component was given
MostAffected ==
    /\ maPc = "idle"
    /\ maClusters' = MostAffectedClusters(maInput)
    /\ maBest' = BestCluster(maClusters')
    /\ maPc' = "done"
    /\ UNCHANGED <<clusterVars, clsVars, rankVars, submitVars, twVars, bdVars, clientVars, pgVars, maInput>>

NextMostAffected == MostAffected

SpecMostAffected == InitMostAffected /\ [][NextMostAffected]_vars

----------------------------------------------------------------------------
(* The PAGASA cache endpoint (api/pagasa/cached.ts).  Time is in seconds. *)

CACHE_TTL == 60

\* `now` of the request
PgNow == 5000

\* what JSON.parse gives for a response text: the value, and whether it is truthy
JsonValue(text) ==
    CASE text = "[1]" -> [json |-> "[1]", truthy |-> TRUE]
      [] text = "[2]" -> [json |-> "[2]", truthy |-> TRUE]
      [] text = "0"   -> [json |-> "0", truthy |-> FALSE]

\* the texts JSON.parse accepts
JsonTexts == {"[1]", "[2]", "0"}

\* the upstream fetch: it rejects, answers with a status that is not OK, or
\* answers OK with a body: empty, blank, not JSON, or JSON
UpstreamOutcomes ==
    {[kind |-> "network error"], [kind |-> "status 503"]}
    \cup {[kind |-> "body", text |-> t] : t \in {"", " ", "<html>", "[2]", "0"}}

UpstreamFails(outcome) ==
    \/ outcome.kind = "network error"
    \/ outcome.kind = "status 503"
    \/ outcome.kind = "body" /\ outcome.text \in {"", " "}
    \/ outcome.kind = "body" /\ outcome.text \notin JsonTexts

\* a row of pagasa_cache
CacheRow(data, cachedAt, expiresAt, hitCount, lastHitAt) ==
    [data |-> data, cached_at |-> cachedAt, expires_at |-> expiresAt,
     hit_count |-> hitCount, last_hit_at |-> lastHitAt]

\* the rows an endpoint may have at the start: none, or one written 70, 60 or 50
\* seconds ago (expired, expiring now, not expired), its data truthy or not
CacheRowsAtStart ==
    {<< >>}
    \cup {<<CacheRow(JsonValue(t), PgNow - age, PgNow - age + CACHE_TTL, 1, PgNow - age)>> :
            t \in {"[1]", "0"}, age \in {70, 60, 50}}

InitPagasa ==
    /\ ClusterIdle
    /\ ClsIdle
    /\ RankIdle
    /\ SubmitIdle
    /\ MaIdle
    /\ TwinIdle
    /\ BoundsIdle
    /\ ClientIdle
    /\ cache \in [PagasaEndpoints -> CacheRowsAtStart]
    /\ pgPc = "idle"
    /\ pgCall = NoCall
    /\ pgResp = NoPagasaResponse

nonPagasaVars == <<clusterVars, clsVars, rankVars, submitVars, maVars, twVars, bdVars, clientVars>>

\* a request with a method other than GET
PagasaOtherMethod ==
    /\ pgPc = "idle"
    /\ pgCall' = [kind |-> "request", method |-> "POST"]
    /\ pgResp' = [status |-> 405]
    /\ pgPc' = "done"
    /\ UNCHANGED <<nonPagasaVars, cache>>

\* GET with a missing or unknown endpoint
PagasaBadEndpoint ==
    /\ pgPc = "idle"
    /\ \E endpoint \in {"", "forecast"} :
          pgCall' = [kind |-> "request", method |-> "GET", endpoint |-> endpoint]
    /\ pgResp' = [status |-> 400]
    /\ pgPc' = "done"
    /\ UNCHANGED <<nonPagasaVars, cache>>

\* `.select('*').eq('endpoint', endpoint).single()`: the row when the read succeeds
\* and there is exactly one, else null (<< >>) with an error
SingleRow(rows, readError) == IF readError \/ Len(rows) # 1 THEN << >> ELSE rows

\* the row after a cache hit
HitRow(row, now) == [row EXCEPT !.hit_count = @ + 1, !.last_hit_at = now]

\* the row after a refresh of an existing entry
RefreshedRow(row, data, now) ==
    CacheRow(data, now, now + CACHE_TTL, row.hit_count + 1, now)

\* (a handler without the stale fallback)
FailedFetchAlwaysError(cached) == [status |-> 500]

\* the response when the upstream fetch failed: the entry read, marked stale, if
\* there is one with data (`cached && cached.data`), else the error is rethrown
FailedFetchResponse(cached) ==
    IF cached # << >> /\ cached[1].data.truthy
    THEN [status |-> 200, data |-> cached[1].data, cached |-> TRUE,
          stale |-> TRUE, cachedAt |-> cached[1].cached_at]
    ELSE [status |-> 500]

\* GET /api/pagasa/cached?endpoint=..: the cache read failing or not, and the
\* outcome of the upstream fetch should the handler get to it
PagasaGet ==
    /\ pgPc = "idle"
    /\ \E endpoint \in PagasaEndpoints, readError \in BOOLEAN,
          upstream \in UpstreamOutcomes, insertError \in BOOLEAN :
          LET cached == SingleRow(cache[endpoint], readError)
              call == [kind |-> "request", method |-> "GET", endpoint |-> endpoint,
                       readError |-> readError, cached |-> cached, before |-> cache,
                       fetched |-> FALSE, upstream |-> [kind |-> "none"]]
          IN  IF cached # << >> /\ cached[1].expires_at > PgNow
              THEN \* cache hit and not expired
                   /\ pgCall' = call
                   /\ cache' = [cache EXCEPT ![endpoint] = <<HitRow(cached[1], PgNow)>>]
                   /\ pgResp' = [status |-> 200, data |-> cached[1].data, cached |-> TRUE,
                                 stale |-> FALSE, cachedAt |-> cached[1].cached_at]
              ELSE IF UpstreamFails(upstream)
              THEN /\ pgCall' = [call EXCEPT !.fetched = TRUE, !.upstream = upstream]
                   /\ cache' = cache
                   /\ pgResp' = FailedFetchResponse(cached)
              ELSE /\ pgCall' = [call EXCEPT !.fetched = TRUE, !.upstream = upstream]
                   /\ IF cached # << >>
                      THEN cache' = [cache EXCEPT ![endpoint] =
                                        <<RefreshedRow(cached[1], JsonValue(upstream.text),
                                                       PgNow)>>]
                      ELSE IF insertError THEN cache' = cache
                      ELSE cache' = [cache EXCEPT ![endpoint] =
                                        Append(@, CacheRow(JsonValue(upstream.text), PgNow,
                                                           PgNow + CACHE_TTL, 1, PgNow))]
                   /\ pgResp' = [status |-> 200, data |-> JsonValue(upstream.text),
                                 cached |-> FALSE, stale |-> FALSE, cachedAt |-> PgNow]
    /\ pgPc' = "done"
    /\ UNCHANGED nonPagasaVars

NextPagasa == PagasaOtherMethod \/ PagasaBadEndpoint \/ PagasaGet

SpecPagasa == InitPagasa /\ [][NextPagasa]_vars

----------------------------------------------------------------------------
(* The client: App with its hooks useAreaSeverity and useReports *)

MaxEvents == 2

MaxTicks == 2

\* rankings a response may carry: area "Near A" with one critical report, the
\* same area with four low reports (the same score), areas "Near B" and "Near C"
RankA == [areaIdentifier |-> "Near A", score |-> 384, severity |-> "critical", reports |-> 1]

RankAChanged == [areaIdentifier |-> "Near A", score |-> 384, severity |-> "medium", reports |-> 4]

RankB == [areaIdentifier |-> "Near B", score |-> 96, severity |-> "low", reports |-> 1]

RankBChanged == [areaIdentifier |-> "Near B", score |-> 192, severity |-> "low", reports |-> 2]

RankingAnswers ==
    {<<RankA>>, <<RankA, RankB>>, <<RankA, RankBChanged>>, <<RankAChanged, RankB>>}

\* responses of GET /api/reports: the reports (newest first), total and hasMore
ReportAnswers ==
    {[reports |-> <<[id |-> 1]>>, total |-> 1, hasMore |-> FALSE],
     [reports |-> <<[id |-> 3]>>, total |-> 2, hasMore |-> TRUE],
     [reports |-> <<[id |-> 3], [id |-> 2], [id |-> 1]>>, total |-> 3, hasMore |-> FALSE],
     [reports |-> <<[id |-> 3], [id |-> 4], [id |-> 1]>>, total |-> 4, hasMore |-> TRUE]}

\* the updater given to setRankings
RankingsUpdater(prevRankings, rankingsWithDates) ==
    IF Len(prevRankings) # Len(rankingsWithDates) THEN rankingsWithDates
    ELSE IF Len(prevRankings) = 0 THEN rankingsWithDates
    ELSE IF \/ prevRankings[1].areaIdentifier # rankingsWithDates[1].areaIdentifier
            \/ prevRankings[1].score # rankingsWithDates[1].score
         THEN rankingsWithDates
    ELSE prevRankings

\* the updater given to setReports
ReportsUpdater(prevReports, reportsWithDates) ==
    IF Len(prevReports) # Len(reportsWithDates) THEN reportsWithDates
    ELSE IF Len(prevReports) = 0 THEN reportsWithDates
    ELSE IF \/ prevReports[1].id # reportsWithDates[1].id
            \/ prevReports[Len(prevReports)].id # reportsWithDates[Len(reportsWithDates)].id
         THEN reportsWithDates
    ELSE prevReports

InitApp ==
    /\ ClusterIdle
    /\ ClsIdle
    /\ RankIdle
    /\ SubmitIdle
    /\ MaIdle
    /\ TwinIdle
    /\ BoundsIdle
    /\ PagasaIdle
    /\ ClientUnmounted
    /\ autoRefresh = FALSE

\* the hooks used with autoRefresh on
InitHooks ==
    /\ ClusterIdle
    /\ ClsIdle
    /\ RankIdle
    /\ SubmitIdle
    /\ MaIdle
    /\ TwinIdle
    /\ BoundsIdle
    /\ PagasaIdle
    /\ ClientUnmounted
    /\ autoRefresh = TRUE

serverVars == <<clusterVars, clsVars, rankVars, submitVars, maVars, twVars, bdVars, pgVars>>

\* App mounts: the initial-fetch effects of both hooks run
Mount ==
    /\ appPc = "unmounted"
    /\ appPc' = "mounted"
    /\ rankIssued' = 1
    /\ rankFlight' = {1}
    /\ repIssued' = 1
    /\ repFlight' = {1}
    /\ UNCHANGED <<serverVars, autoRefresh, events, ticks, rankingsHeld, rankLast, reportsHeld,
                   total, hasMore, repAnswers, repLast>>

\* a 'new_report' broadcast arrives on reports_broadcast: `fetchReports(true)`
NewReportBroadcast ==
    /\ appPc = "mounted"
    /\ events < MaxEvents
    /\ events' = events + 1
    /\ repIssued' = repIssued + 1
    /\ repFlight' = repFlight \cup {repIssued + 1}
    /\ UNCHANGED <<serverVars, appPc, autoRefresh, ticks, rankingsHeld, rankIssued, rankFlight,
                   rankLast, reportsHeld, total, hasMore, repAnswers, repLast>>

\* the refresh interval of useAreaSeverity fires: `fetchRankings(true)`
RefreshInterval ==
    /\ appPc = "mounted"
    /\ autoRefresh
    /\ ticks < MaxTicks
    /\ ticks' = ticks + 1
    /\ rankIssued' = rankIssued + 1
    /\ rankFlight' = rankFlight \cup {rankIssued + 1}
    /\ UNCHANGED <<serverVars, appPc, autoRefresh, events, rankingsHeld, rankLast, reportsHeld,
                   total, hasMore, repIssued, repFlight, repAnswers, repLast>>

\* a getAreaSeverity request settles: with a response, or with an error (catch)
RankingsSettled ==
    /\ \E seq \in rankFlight :
          /\ rankFlight' = rankFlight \ {seq}
          /\ \/ \E answer \in RankingAnswers :
                   /\ rankingsHeld' = RankingsUpdater(rankingsHeld, answer)
                   /\ rankLast' = [seq |-> seq, ok |-> TRUE, answer |-> answer,
                                   prev |-> rankingsHeld]
             \/ /\ rankingsHeld' = rankingsHeld
                /\ rankLast' = [seq |-> seq, ok |-> FALSE, answer |-> << >>,
                                prev |-> rankingsHeld]
    /\ UNCHANGED <<serverVars, appPc, autoRefresh, events, ticks, rankIssued, reportsHeld,
                   total, hasMore, repIssued, repFlight, repAnswers, repLast>>

\* a getReports request settles: with a response, or with an error (catch)
ReportsSettled ==
    /\ \E seq \in repFlight :
          /\ repFlight' = repFlight \ {seq}
          /\ \/ \E answer \in ReportAnswers :
                   /\ reportsHeld' = ReportsUpdater(reportsHeld, answer.reports)
                   /\ hasMore' = answer.hasMore
                   /\ total' = answer.total
                   /\ repAnswers' = repAnswers \cup {[seq |-> seq, ok |-> TRUE,
                                                       answer |-> <<answer>>]}
                   /\ repLast' = [seq |-> seq, ok |-> TRUE, answer |-> answer.reports,
                                  prev |-> reportsHeld]
             \/ /\ UNCHANGED <<reportsHeld, hasMore, total>>
                /\ repAnswers' = repAnswers \cup {[seq |-> seq, ok |-> FALSE,
                                                    answer |-> << >>]}
                /\ repLast' = [seq |-> seq, ok |-> FALSE, answer |-> << >>,
                               prev |-> reportsHeld]
    /\ UNCHANGED <<serverVars, appPc, autoRefresh, events, ticks, rankingsHeld, rankIssued,
                   rankFlight, rankLast, repIssued>>

NextApp == Mount \/ NewReportBroadcast \/ RankingsSettled \/ ReportsSettled

NextHooks == NextApp \/ RefreshInterval

SpecApp == InitApp /\ [][NextApp]_vars

\* every request settles, and a broadcast on its way arrives
SpecAppFair ==
    /\ InitApp
    /\ [][NextApp]_vars
    /\ WF_vars(Mount)
    /\ WF_vars(RankingsSettled)
    /\ WF_vars(ReportsSettled)

SpecHooks == InitHooks /\ [][NextHooks]_vars

----------------------------------------------------------------------------
(* Vocabulary of the clustering properties *)

\* the reports the loop of invocation i has taken so far that have coordinates
TakenWithCoords(i) == {input[i][k] : k \in {j \in 1..idx[i] : HasCoords(input[i][j])}}

\* the places <<group, position>> of a group array
Places(gs) == {pl \in (1..Len(gs)) \X (1..MaxReports + 1) : pl[2] <= Len(gs[pl[1]].reports)}

MemberIds(g) == {g.reports[m].id : m \in 1..Len(g.reports)}

\* the partition of report ids a group array stands for
PartitionOf(gs) == {MemberIds(gs[g]) : g \in 1..Len(gs)}

\* arithmetic mean of the coordinates of a non-empty list of located reports
RECURSIVE SumCoord(_, _)
SumCoord(list, c) == IF list = << >> THEN 0 ELSE Head(list).coordinates[c] + SumCoord(Tail(list), c)

MeanOf(list) == <<Rat(SumCoord(list, 1), Len(list)), Rat(SumCoord(list, 2), Len(list))>>

\* centre is at most 2500 m (2 500 000 mm) from coords
Near(coords, centre) ==
    LET d == haversineMeters(Point(coords), centre) IN d[1] <= 2500 * 1000 * d[2]

NearCoords(c1, c2) == Near(c1, Point(c2))

\* the groups of gs whose centroid, the mean of its members, is within the radius
GroupsInRange(gs, coords) == {g \in 1..Len(gs) : Near(coords, MeanOf(gs[g].reports))}

\* the member lists of a group array
MemberLists(gs) == [g \in 1..Len(gs) |-> gs[g].reports]

\* the loop steps invocation i has made: step k took input[i][k] from hist[i][k] to hist[i][k+1]
Steps(i) == 1..idx[i]

----------------------------------------------------------------------------
(* C1: the clusters partition the reports that have coordinates: every located  *)
(* report the loop has taken is at exactly one place of exactly one cluster,    *)
(* every member is such a report, and no cluster is empty.                      *)
C1_ClustersPartitionLocatedReports ==
    \A i \in Invocations :
        /\ \A g \in 1..Len(groups[i]) : Len(groups[i][g].reports) >= 1
        /\ \A r \in TakenWithCoords(i) :
              Cardinality({pl \in Places(groups[i]) : groups[i][pl[1]].reports[pl[2]] = r}) = 1
        /\ \A pl \in Places(groups[i]) : groups[i][pl[1]].reports[pl[2]] \in TakenWithCoords(i)

\* a finished run with a report without coordinates, a cluster of two and a second cluster
C1_Witness ==
    \E i \in Invocations :
        /\ pc[i] = "done"
        /\ \E k \in 1..Len(input[i]) : ~HasCoords(input[i][k])
        /\ Len(groups[i]) = 1
        /\ Len(groups[i][1].reports) = 2

(* C2: each located report joins the earliest-created cluster whose centroid at  *)
(* that moment is within 2500 m, also when a later cluster is nearer, and founds *)
(* a singleton cluster, last in creation order, only when none is within 2500 m. *)
C2_FirstMatchInCreationOrder ==
    \A i \in Invocations : \A k \in Steps(i) :
        LET before == hist[i][k]
            after == hist[i][k + 1]
            r == input[i][k]
            W == GroupsInRange(before, r.coordinates)
        IN  HasCoords(r) =>
              IF W # {}
              THEN MemberLists(after) =
                     [MemberLists(before) EXCEPT ![Min(W)] = Append(@, r)]
              ELSE MemberLists(after) = Append(MemberLists(before), <<r>>)

\* a report joined the first cluster while a later-created cluster's centroid was
\* within the radius too, and strictly nearer
C2_Witness ==
    \E i \in Invocations : \E k \in Steps(i) :
        LET before == hist[i][k]
            after == hist[i][k + 1]
            r == input[i][k]
        IN  /\ HasCoords(r)
            /\ Len(before) >= 2
            /\ {1, 2} \subseteq GroupsInRange(before, r.coordinates)
            /\ ~RatLeq(haversineMeters(Point(r.coordinates), before[1].centroid),
                       haversineMeters(Point(r.coordinates), before[2].centroid))
            /\ after[1].reports = Append(before[1].reports, r)

(* C6 as stated: two reports more than 2500 m apart are never members of the    *)
(* same cluster.                                                                *)
C6_FarReportsNeverShareCluster ==
    \A i \in Invocations : \A g \in 1..Len(groups[i]) :
        \A m \in 1..Len(groups[i][g].reports), n \in 1..Len(groups[i][g].reports) :
            NearCoords(groups[i][g].reports[m].coordinates, groups[i][g].reports[n].coordinates)

(* C6 amended: a report joins a cluster only when it is within 2500 m of that    *)
(* cluster's centroid at the moment it joins (so the first two members of a      *)
(* cluster are within 2500 m of each other); members may be further apart.       *)
C6_JoinsWithinRadiusOfCentroid ==
    \A i \in Invocations :
        /\ \A k \in Steps(i) : \A g \in 1..Len(hist[i][k]) :
              Len(hist[i][k + 1][g].reports) > Len(hist[i][k][g].reports) =>
                  Near(input[i][k].coordinates, MeanOf(hist[i][k][g].reports))
        /\ \A g \in 1..Len(groups[i]) :
              Len(groups[i][g].reports) >= 2 =>
                  NearCoords(groups[i][g].reports[1].coordinates,
                             groups[i][g].reports[2].coordinates)

\* a report joined a cluster of two whose anchor is more than 2500 m from it
C6_Witness ==
    \E i \in Invocations : \E g \in 1..Len(groups[i]) :
        /\ pc[i] = "done"
        /\ Len(groups[i][g].reports) = 3
        /\ ~NearCoords(groups[i][g].reports[1].coordinates, groups[i][g].reports[3].coordinates)
        /\ Near(groups[i][g].reports[3].coordinates,
                MeanOf(SubSeq(groups[i][g].reports, 1, 2)))
\* an input <<a, b, c>> of located reports where b is within the radius of a and c is
\* within the radius of the centroid of a and b
ChainInput(list) ==
    /\ Len(list) = 3
    /\ \A k \in 1..3 : HasCoords(list[k])
    /\ NearCoords(list[1].coordinates, list[2].coordinates)
    /\ Near(list[3].coordinates, MeanOf(SubSeq(list, 1, 2)))

(* C7: chaining happens: on an input <<a, b, c>> where b is within 2500 m of a   *)
(* and c within 2500 m of the centroid of a and b, all three reports end in one  *)
(* cluster, whatever the distance between b and c or between a and c.            *)
C7_ChainedReportsShareCluster ==
    \A i \in Invocations :
        (pc[i] = "done" /\ ChainInput(input[i])) =>
            PartitionOf(groups[i]) = {{input[i][k].id : k \in 1..3}}

\* an anchor followed by two reports, each within 2500 m of the anchor and more than
\* 2500 m from each other, all in one cluster
C7_Witness ==
    \E i \in Invocations :
        /\ pc[i] = "done"
        /\ ChainInput(input[i])
        /\ NearCoords(input[i][1].coordinates, input[i][3].coordinates)
        /\ ~NearCoords(input[i][2].coordinates, input[i][3].coordinates)
        /\ Len(groups[i]) = 1
        /\ MemberIds(groups[i][1]) = {input[i][k].id : k \in 1..3}

(* C8: clustering depends on the input order: when <<a, b, c>> chains into one   *)
(* cluster with b and c more than 2500 m apart, the ordering <<b, c, a>> of the  *)
(* same reports yields a different partition.                                    *)
C8_OrderChangesPartition ==
    \A i \in Invocations : \A j \in Invocations :
        ( /\ pc[i] = "done" /\ pc[j] = "done"
          /\ ChainInput(input[i])
          /\ ~NearCoords(input[i][2].coordinates, input[i][3].coordinates)
          /\ input[j] = <<input[i][2], input[i][3], input[i][1]>> )
        => PartitionOf(groups[i]) # PartitionOf(groups[j])

\* two finished runs on two orderings of the same three reports, one cluster against two
C8_Witness ==
    \E i \in Invocations : \E j \in Invocations :
        /\ pc[i] = "done" /\ pc[j] = "done"
        /\ ChainInput(input[i])
        /\ ~NearCoords(input[i][2].coordinates, input[i][3].coordinates)
        /\ input[j] = <<input[i][2], input[i][3], input[i][1]>>
        /\ Len(groups[i]) = 1
        /\ Len(groups[j]) = 2

(* C9: no state is kept between invocations: two invocations given the same list *)
(* in the same order, whatever else ran before or in between, hold the same      *)
(* groups (membership, member order, centroids) after the same number of steps,  *)
(* and so return the same result.                                                *)
C9_SameInputSameClusters ==
    \A i \in Invocations : \A j \in Invocations :
        (pc[i] # "idle" /\ pc[j] # "idle" /\ input[i] = input[j] /\ idx[i] = idx[j]) =>
            /\ groups[i] = groups[j]
            /\ hist[i] = hist[j]

\* the second of two runs on the same list was called after the first had filled
\* its groups; both have returned the same two clusters
C9_Witness ==
    /\ pc[1] = "done" /\ pc[2] = "done"
    /\ input[1] = input[2]
    /\ Len(input[1]) = 3
    /\ Len(groups[1]) = 2
    /\ groups[1] = groups[2]
----------------------------------------------------------------------------
(* Vocabulary of the classification properties *)

ClsAge(k) == clsArgs.now - clsArgs.reports[k].timestamp

\* report k of the call meets a recency-override condition
ClsQualifies(k) ==
    \/ clsArgs.reports[k].severity = "critical" /\ ClsAge(k) < 6
    \/ clsArgs.reports[k].severity = "high" /\ ClsAge(k) < 12
    \/ clsArgs.reports[k].severity = "medium" /\ ClsAge(k) < 24

ClsPositions == 1..Len(clsArgs.reports)

(* C3 as stated: the result is critical whenever the list contains a critical    *)
(* report of age 1 hour, whatever the score, the other reports and its position. *)
C3_RecentCriticalAlwaysCritical ==
    (clsPc = "done" /\ \E k \in ClsPositions :
        clsArgs.reports[k].severity = "critical" /\ ClsAge(k) = 1)
    => clsResult = "critical"

(* C3 amended: the result is critical whenever the list contains a critical      *)
(* report of age 1 hour that no high report younger than 12 h and no medium      *)
(* report younger than 24 h precedes in the input order, whatever the score.     *)
C3_RecentCriticalUnlessPreceded ==
    (clsPc = "done" /\ \E k \in ClsPositions :
        /\ clsArgs.reports[k].severity = "critical" /\ ClsAge(k) = 1
        /\ \A j \in 1..(k - 1) : ~ClsQualifies(j))
    => clsResult = "critical"

\* a critical report of age 1 h in second place, after a high report too old to
\* override, with a score below every threshold
C3_Witness ==
    /\ clsPc = "done"
    /\ Len(clsArgs.reports) = 2
    /\ clsArgs.reports[1].severity = "high" /\ ClsAge(1) = 12
    /\ clsArgs.reports[2].severity = "critical" /\ ClsAge(2) = 1
    /\ clsArgs.score = 0
    /\ clsResult = "critical"

(* C4: when a report of the list meets a recency-override condition (critical    *)
(* under 6 h, high under 12 h, medium under 24 h, strict), the result is the     *)
(* severity of the first such report in input order, whatever the score and      *)
(* whatever qualifies later; a low report never qualifies.                       *)
C4_FirstQualifyingReportWins ==
    (clsPc = "done" /\ \E k \in ClsPositions : ClsQualifies(k))
    => clsResult = clsArgs.reports[Min({k \in ClsPositions : ClsQualifies(k)})].severity

\* a high report of age 11 h wins over the critical report of age 1 h after it and
\* over a score that reaches the threshold for critical
C4_Witness ==
    /\ clsPc = "done"
    /\ Len(clsArgs.reports) = 2
    /\ clsArgs.reports[1].severity = "high" /\ ClsAge(1) = 11
    /\ clsArgs.reports[2].severity = "critical" /\ ClsAge(2) = 1
    /\ clsArgs.score >= 12 * ScoreUnit
    /\ clsResult = "high"

(* C5: when no report meets a recency-override condition the result follows the  *)
(* score alone: critical from 12, high from 6, medium from 3, low below; ten low *)
(* reports of age 0 score 10 and give high.                                      *)
C5_ScoreThresholds ==
    /\ (clsPc = "done" /\ \A k \in ClsPositions : ~ClsQualifies(k)) =>
          clsResult = IF clsArgs.score >= 12000000 THEN "critical"
                      ELSE IF clsArgs.score >= 6000000 THEN "high"
                      ELSE IF clsArgs.score >= 3000000 THEN "medium"
                      ELSE "low"
    /\ (clsPc = "done" /\ clsArgs.reports = TenLowReports) =>
          clsArgs.score = 10000000 /\ clsResult = "high"

\* ten low reports of age 0, scored and classified
C5_Witness ==
    /\ clsPc = "done"
    /\ clsArgs.reports = TenLowReports
    /\ clsArgs.score = 10000000
    /\ clsResult = "high"

\* ---------------------------------------------------------------------------
\* Vocabulary of the ranking properties
\* ---------------------------------------------------------------------------

\* the place of a ranking in cluster-discovery order (a ranking is known by the
\* ids of its reports)
DiscoveryIndex(ranking) ==
    CHOOSE k \in 1..Len(rkUnsorted) : rkUnsorted[k].reportIds = ranking.reportIds

\* sorted holds the rankings of unsorted, each once
SameRankings(sorted, unsorted) ==
    /\ Len(sorted) = Len(unsorted)
    /\ \A k \in 1..Len(unsorted) : \E j \in 1..Len(sorted) : sorted[j] = unsorted[k]
    /\ \A j, k \in 1..Len(sorted) : sorted[j].reportIds = sorted[k].reportIds => j = k

\* the limit a request ends up with, when it is a number
LimitUsed == rkCall.limit.value

\* C10: the list calculateAreaSeverity returns holds the rankings of the clusters
\* in discovery order, rearranged so that adjacent scores never increase and
\* rankings of equal score stay in discovery order; the rankings of a 200 response
\* are the first min(limit, n) of that list in the same order, limit being the
\* number the handler slices with.
C10_StableSortByScoreThenTruncate ==
    /\ SameRankings(rkSorted, rkUnsorted)
    /\ \A j \in 1..(Len(rkSorted) - 1) : rkSorted[j].score >= rkSorted[j + 1].score
    /\ \A i, j \in 1..Len(rkSorted) :
          (i < j /\ rkSorted[i].score = rkSorted[j].score)
              => DiscoveryIndex(rkSorted[i]) < DiscoveryIndex(rkSorted[j])
    /\ rkResp.status = 200 =>
          /\ Len(rkResp.rankings) <= Len(rkSorted)
          /\ \A k \in 1..Len(rkResp.rankings) : rkResp.rankings[k] = rkSorted[k]
          /\ ~rkCall.limit.nan =>
                Len(rkResp.rankings) = IF LimitUsed < Len(rkSorted) THEN LimitUsed
                                       ELSE Len(rkSorted)

\* three clusters, two of equal score discovered before one of higher score, and a
\* response cut to two of them
C10_Witness ==
    /\ rkPc = "done"
    /\ rkResp.status = 200
    /\ Len(rkUnsorted) = 3
    /\ rkUnsorted[1].score = rkUnsorted[2].score
    /\ rkUnsorted[3].score > rkUnsorted[1].score
    /\ rkSorted = <<rkUnsorted[3], rkUnsorted[1], rkUnsorted[2]>>
    /\ ~rkCall.limit.nan /\ LimitUsed = 2
    /\ rkResp.rankings = <<rkUnsorted[3], rkUnsorted[1]>>

\* the ids of the reports the rankings of a list count as members
CountedIds(rankings) ==
    UNION {{rankings[k].reportIds[m] : m \in 1..Len(rankings[k].reportIds)} :
              k \in 1..Len(rankings)}

\* the reports of the call whose ids are in ids, in the order of the call
CallReports(ids) ==
    Filter(rkCall.reports, {k \in 1..Len(rkCall.reports) : rkCall.reports[k].id \in ids})

\* the members of a ranking, in the order of the call
MembersOf(ranking) ==
    CallReports({ranking.reportIds[m] : m \in 1..Len(ranking.reportIds)})

\* the sum of the four per-severity counts of a ranking
TotalCount(ranking) ==
    ranking.reportCounts.critical + ranking.reportCounts.high
    + ranking.reportCounts.medium + ranking.reportCounts.low

DirectCallDone == rkPc = "done" /\ rkCall.kind = "calculateAreaSeverity"

\* C11: in a call calculateAreaSeverity(reports, timeWindowHours) the reports counted
\* as members of the rankings are exactly the reports with coordinates whose
\* timestamp is at or after now - timeWindowHours (a timestamp equal to the cutoff
\* or after now included); the counts of every ranking add up to its members and
\* its score is the score of its members, so an older report adds to nothing.
C11_OnlyReportsInWindowCounted ==
    DirectCallDone =>
        /\ CountedIds(rkSorted) =
              {rkCall.reports[k].id : k \in {j \in 1..Len(rkCall.reports) :
                  /\ Len(rkCall.reports[j].coordinates) = 2
                  /\ rkCall.reports[j].timestamp >= NowHours - rkCall.timeWindowHours}}
        /\ \A k \in 1..Len(rkSorted) :
              /\ TotalCount(rkSorted[k]) = Len(rkSorted[k].reportIds)
              /\ rkSorted[k].score =
                    RoundedScore(calculateSeverityScore(MembersOf(rkSorted[k]), NowHours))

\* a call with a window of 24 hours on three reports at one place: one exactly 24
\* hours old and one dated an hour after now are counted, one 25 hours old is not
C11_Witness ==
    /\ DirectCallDone
    /\ rkCall.timeWindowHours = 24
    /\ Len(rkCall.reports) = 3
    /\ rkCall.reports[1].timestamp = NowHours - 24
    /\ rkCall.reports[2].timestamp = NowHours - 25
    /\ rkCall.reports[3].timestamp = NowHours + 1
    /\ Len(rkSorted) = 1
    /\ rkSorted[1].reportIds = <<1, 3>>
    /\ rkSorted[1].reportCounts.low = 2

GetRequestDone == rkPc = "done" /\ rkCall.kind = "request" /\ rkCall.method = "GET"

\* C12: for every GET request, whatever the query string holds, the timeWindowHours
\* the handler goes on with is a number from 1 to 720 and the limit a number from 1
\* to 100, and a 200 response carries at most 100 rankings.
C12_QueryValuesClamped ==
    GetRequestDone =>
        /\ ~rkCall.timeWindowHours.nan
        /\ rkCall.timeWindowHours.value >= 1 /\ rkCall.timeWindowHours.value <= 720
        /\ ~rkCall.limit.nan
        /\ rkCall.limit.value >= 1 /\ rkCall.limit.value <= 100
        /\ rkResp.status = 200 => Len(rkResp.rankings) <= 100

\* ---------------------------------------------------------------------------
\* Vocabulary of the resolver properties
\* ---------------------------------------------------------------------------

LocationCallDone == sbPc = "done" /\ sbCall.kind = "calculateSeverityForLocation"

\* the reports of a list with coordinates at most `meters` from coords, in the order
\* of the list (all places lie on one meridian, 11132 mm to the unit)
Neighbourhood(list, coords, meters) ==
    Filter(list, {k \in 1..Len(list) :
        /\ Len(list[k].coordinates) = 2
        /\ Abs(list[k].coordinates[1] - coords[1]) * 11132 <= meters * 1000})

\* C13: calculateSeverityForLocation returns low when coords is absent or no report
\* with coordinates lies within the radius (2500 m unless given; a report at exactly
\* the radius is within it); otherwise it returns the classification of the score
\* of the reports within the radius, taken in input order, and of nothing else.
C13_SeverityFromNeighbourhoodOnly ==
    LocationCallDone =>
        sbSeverity =
            IF sbCall.coords = << >> THEN "low"
            ELSE IF Neighbourhood(sbCall.reports, sbCall.coords, sbCall.radiusMeters) = << >>
            THEN "low"
            ELSE assignSeverityLevel(
                    calculateSeverityScore(
                        Neighbourhood(sbCall.reports, sbCall.coords, sbCall.radiusMeters),
                        sbCall.now),
                    Neighbourhood(sbCall.reports, sbCall.coords, sbCall.radiusMeters),
                    sbCall.now)

\* the default radius; a critical report an hour old 3340 m away comes first in the
\* list, a low report 1336 m away second: the result is low
C13_Witness ==
    /\ LocationCallDone
    /\ sbCall.radiusMeters = 2500
    /\ sbCall.coords = <<BaseLat, Lng>>
    /\ Len(sbCall.reports) = 2
    /\ sbCall.reports[1].severity = "critical"
    /\ sbCall.reports[1].coordinates = <<BaseLat + 300, Lng>>
    /\ sbCall.reports[2].severity = "low"
    /\ sbCall.reports[2].coordinates = <<BaseLat + 120, Lng>>
    /\ sbSeverity = "low"

\* ---------------------------------------------------------------------------
\* Vocabulary of the submission properties
\* ---------------------------------------------------------------------------

SubmissionDone == sbPc = "done" /\ sbCall.kind = "submit" /\ sbCall.method = "POST"

SubmissionAccepted == SubmissionDone /\ sbResp = 201

\* the table as it was before an accepted submission added its row
TableBefore == SubSeq(db, 1, Len(db) - 1)

\* the recent reports of that table: not deleted, of the last 168 hours, newest first
RecentBefore ==
    [k \in 1..Len(FetchReports(TableBefore, NowHours - 168)) |->
        dbRecordToUserReport(FetchReports(TableBefore, NowHours - 168)[k])]

\* C14: for every accepted submission the severity stored with the new report is
\* the value calculateSeverityForLocation returns for the candidate's coordinates
\* over the recent reports of the table before the insert; a severity sent in the
\* request body never becomes the stored severity.
C14_StoredSeverityIsResolved ==
    SubmissionAccepted =>
        /\ Len(sbStored) = 1
        /\ sbStored[1].severity =
              calculateSeverityForLocation(RecentBefore, sbCall.body.coordinates, NowHours, 2500)
        /\ (sbCall.body.severity # "undefined"
             /\ sbCall.body.severity #
                  calculateSeverityForLocation(RecentBefore, sbCall.body.coordinates,
                                               NowHours, 2500))
            => sbStored[1].severity # sbCall.body.severity

\* C18: a failed fetch of the reports is answered with an error and not swallowed:
\* the submission handler then stores no report, and the area-severity endpoint
\* answers 500.
C18_FetchFailureSurfaced ==
    /\ (SubmissionDone /\ sbCall.fetchError) => (sbResp >= 500 /\ sbStored = << >>)
    /\ (rkPc = "done" /\ rkCall.kind = "request" /\ rkCall.method = "GET"
         /\ rkCall.fetchError) => rkResp.status = 500

\* ---------------------------------------------------------------------------
\* Vocabulary of the properties of non-finite coordinates
\* ---------------------------------------------------------------------------

NonFinite(coords) == Len(coords) = 2 /\ (coords[1] = NaNDegrees \/ coords[2] = NaNDegrees)

\* the reports of a list whose coordinates are absent or finite
FiniteOnly(list) == Filter(list, {k \in 1..Len(list) : ~NonFinite(list[k].coordinates)})

NaNInPoint(point) == point[1][2] = 0 \/ point[2][2] = 0

NaNInRing(ring) == \E k \in 1..Len(ring) : ring[k][1] = NaNDegrees \/ ring[k][2] = NaNDegrees

\* C15: a report whose latitude or longitude is not finite is treated as a report
\* without coordinates: it is a member of no cluster, no cluster centroid, ranking
\* centroid or bounds holds NaN, and calculateSeverityForLocation returns what it
\* returns without such reports.
C15_NonFiniteTreatedAsAbsent ==
    /\ DirectCallDone =>
          /\ \A g \in 1..Len(rkGroups) :
                /\ ~NaNInPoint(rkGroups[g].centroid)
                /\ \A m \in 1..Len(rkGroups[g].reports) :
                      ~NonFinite(rkGroups[g].reports[m].coordinates)
          /\ \A k \in 1..Len(rkSorted) :
                /\ ~NaNInPoint(rkSorted[k].coordinates)
                /\ ~NaNInRing(rkSorted[k].bounds)
    /\ LocationCallDone =>
          sbSeverity = calculateSeverityForLocation(FiniteOnly(sbCall.reports), sbCall.coords,
                                                    sbCall.now, sbCall.radiusMeters)

\* ---------------------------------------------------------------------------
\* Vocabulary of the properties of missing data
\* ---------------------------------------------------------------------------

\* the indices of the reports of the call that are in the window and have coordinates
LocatedInWindow ==
    {k \in 1..Len(rkCall.reports) :
        /\ Len(rkCall.reports[k].coordinates) = 2
        /\ rkCall.reports[k].timestamp >= NowHours - rkCall.timeWindowHours}

\* the ids of the reports of the call that have no coordinates
UnlocatedIds ==
    {rkCall.reports[k].id : k \in {j \in 1..Len(rkCall.reports) :
                                      Len(rkCall.reports[j].coordinates) # 2}}

\* the members of a ranking that have coordinates and the severity level
LocatedMembers(ranking, level) ==
    {k \in 1..Len(rkCall.reports) :
        /\ \E m \in 1..Len(ranking.reportIds) : ranking.reportIds[m] = rkCall.reports[k].id
        /\ Len(rkCall.reports[k].coordinates) = 2
        /\ rkCall.reports[k].severity = level}

\* C16: calculateAreaSeverity returns a list whatever data is missing: a report
\* without coordinates is a member of no ranking and is counted in no ranking's
\* reportCounts, and the result is the empty list when the input is empty or no
\* report in the window has coordinates.
C16_MissingDataSkipped ==
    DirectCallDone =>
        /\ CountedIds(rkSorted) \cap UnlocatedIds = {}
        /\ \A k \in 1..Len(rkSorted) : \A level \in Severities :
              rkSorted[k].reportCounts[level] = Cardinality(LocatedMembers(rkSorted[k], level))
        /\ (LocatedInWindow = {}) => rkSorted = << >>
        /\ (rkSorted = << >>) => LocatedInWindow = {}

\* a call on a report without coordinates, a located one and another without
\* coordinates, all in the window: one ranking, of the located report alone
C16_Witness ==
    /\ DirectCallDone
    /\ Len(rkCall.reports) = 3
    /\ rkCall.reports[1].coordinates = NoCoords
    /\ rkCall.reports[2].coordinates = <<BaseLat, Lng>>
    /\ rkCall.reports[3].coordinates = NoCoords
    /\ rkCall.reports[2].timestamp = NowHours - 1
    /\ Len(rkSorted) = 1
    /\ rkSorted[1].reportIds = <<2>>
    /\ TotalCount(rkSorted[1]) = 1

\* ---------------------------------------------------------------------------
\* Vocabulary of the properties of the fallback point
\* ---------------------------------------------------------------------------

MostAffectedDone == maPc = "done"

\* how many reports the clusters of a pass hold
RECURSIVE ClusteredCount(_)
ClusteredCount(clusters) ==
    IF clusters = << >> THEN 0 ELSE Head(clusters).count + ClusteredCount(Tail(clusters))

\* C17: in every proximity-clustering pass of the repository a report without
\* coordinates neither joins nor creates a cluster, the fixed fallback point being
\* never taken for its place: after the mostAffected pass of the reports list the
\* clusters hold exactly the reports that have coordinates.
C17_FallbackPointNeverClustered ==
    MostAffectedDone =>
        ClusteredCount(maClusters) =
            Cardinality({k \in 1..Len(maInput) : Len(maInput[k].coordinates) = 2})

\* ---------------------------------------------------------------------------
\* Vocabulary of the properties of the statistics of a ranking
\* ---------------------------------------------------------------------------

\* the indices in the call of the members of a ranking
MemberIndices(ranking) ==
    {j \in 1..Len(rkCall.reports) :
        \E m \in 1..Len(ranking.reportIds) : ranking.reportIds[m] = rkCall.reports[j].id}

\* the ids of the members of a cluster, in the order they joined
GroupIds(group) == [m \in 1..Len(group.reports) |-> group.reports[m].id]

\* C20: calculateAreaSeverity returns exactly one ranking per cluster; in each
\* ranking reportCounts[L] is the number of members of severity L, the four
\* counts add up to the number of members, which is at least 1, needsRescueCount
\* is the number of members with needsRescue true, and latestReportAt is the
\* greatest timestamp of the members.
C20_RankingStatisticsOfMembers ==
    DirectCallDone =>
        /\ Len(rkSorted) = Len(rkGroups)
        /\ \A g \in 1..Len(rkGroups) :
              Cardinality({k \in 1..Len(rkSorted) :
                              rkSorted[k].reportIds = GroupIds(rkGroups[g])}) = 1
        /\ \A k \in 1..Len(rkSorted) :
              LET ranking == rkSorted[k]
                  members == MemberIndices(ranking)
              IN  /\ Cardinality(members) >= 1
                  /\ Cardinality(members) = Len(ranking.reportIds)
                  /\ \A level \in Severities :
                        ranking.reportCounts[level] =
                            Cardinality({j \in members : rkCall.reports[j].severity = level})
                  /\ TotalCount(ranking) = Cardinality(members)
                  /\ ranking.needsRescueCount =
                        Cardinality({j \in members : rkCall.reports[j].needsRescue})
                  /\ \E j \in members : ranking.latestReportAt = rkCall.reports[j].timestamp
                  /\ \A j \in members : ranking.latestReportAt >= rkCall.reports[j].timestamp

\* a call with a window of 168 hours on a critical report of 30 hours that needs
\* rescue, a medium one of 2 hours 1336 m away that needs rescue and a low one of
\* 1 hour that does not: one ranking of the three, whose latest report is the last
C20_Witness ==
    /\ DirectCallDone
    /\ rkCall.timeWindowHours = 168
    /\ Len(rkCall.reports) = 3
    /\ rkCall.reports[1].severity = "critical" /\ rkCall.reports[1].needsRescue
    /\ rkCall.reports[2].severity = "medium" /\ rkCall.reports[2].needsRescue
    /\ rkCall.reports[3].severity = "low" /\ ~rkCall.reports[3].needsRescue
    /\ Len(rkSorted) = 1
    /\ rkSorted[1].reportIds = <<1, 2, 3>>
    /\ rkSorted[1].reportCounts = [critical |-> 1, high |-> 0, medium |-> 1, low |-> 1]
    /\ rkSorted[1].needsRescueCount = 2
    /\ rkSorted[1].latestReportAt = NowHours - 1

\* ---------------------------------------------------------------------------
\* Vocabulary of the properties of the fields that scoring ignores
\* ---------------------------------------------------------------------------

TwoCallsDone == rkPc = "done" /\ rkCall.kind = "calculateAreaSeverity twice"

\* two lists that differ in the needsRescue and source fields of their reports only
DifferInFlagsOnly(a, b) ==
    /\ Len(a) = Len(b)
    /\ \A k \in 1..Len(a) :
          [b[k] EXCEPT !.needsRescue = a[k].needsRescue, !.source = a[k].source] = a[k]

\* C19: needsRescue and source do not interfere with scoring: on two lists that
\* differ in those two fields only, groupReportsByArea yields the same clusters
\* (members, in order, and centroid) and calculateAreaSeverity yields rankings
\* with the same members, score, severity, reportCounts, centroid and bounds in
\* the same order.
C19_RescueAndSourceDoNotInterfere ==
    (TwoCallsDone /\ DifferInFlagsOnly(rkCall.reports, twReports)) =>
        /\ Len(twGroups) = Len(rkGroups)
        /\ \A g \in 1..Len(rkGroups) :
              /\ GroupIds(twGroups[g]) = GroupIds(rkGroups[g])
              /\ twGroups[g].centroid = rkGroups[g].centroid
        /\ Len(twSorted) = Len(rkSorted)
        /\ \A k \in 1..Len(rkSorted) :
              /\ twSorted[k].reportIds = rkSorted[k].reportIds
              /\ twSorted[k].score = rkSorted[k].score
              /\ twSorted[k].severity = rkSorted[k].severity
              /\ twSorted[k].reportCounts = rkSorted[k].reportCounts
              /\ twSorted[k].coordinates = rkSorted[k].coordinates
              /\ twSorted[k].bounds = rkSorted[k].bounds

\* two calls on three reports in two clusters; in the second list every report
\* needs rescue and comes from the other source, and only needsRescueCount differs
C19_Witness ==
    /\ TwoCallsDone
    /\ Len(rkCall.reports) = 3
    /\ \A k \in 1..3 :
          /\ twReports[k].needsRescue # rkCall.reports[k].needsRescue
          /\ twReports[k].source # rkCall.reports[k].source
    /\ Len(rkSorted) = 2
    /\ Len(twSorted) = 2
    /\ rkSorted[1].score = twSorted[1].score
    /\ rkSorted[1].needsRescueCount # twSorted[1].needsRescueCount
    /\ rkSorted[2].needsRescueCount # twSorted[2].needsRescueCount

\* ---------------------------------------------------------------------------
\* Vocabulary of the properties of the running centroid
\* ---------------------------------------------------------------------------

\* list a is the beginning of list b
IsPrefix(a, b) == Len(a) <= Len(b) /\ SubSeq(b, 1, Len(a)) = a

\* C21: after each report groupReportsByArea has processed, the centroid of every
\* cluster is the arithmetic mean of the coordinates of its members; a step only
\* appends: the clusters there were keep their place and their members, in order,
\* and at most one report is added; and calculateCentroid over the members of a
\* cluster is the cluster's running centroid.
C21_CentroidIsRunningMean ==
    \A i \in Invocations :
        /\ \A h \in 1..Len(hist[i]) : \A g \in 1..Len(hist[i][h]) :
              /\ hist[i][h][g].centroid = MeanOf(hist[i][h][g].reports)
              /\ calculateCentroid(hist[i][h][g].reports) = hist[i][h][g].centroid
        /\ \A h \in 1..(Len(hist[i]) - 1) :
              /\ Len(hist[i][h]) <= Len(hist[i][h + 1])
              /\ \A g \in 1..Len(hist[i][h]) :
                    IsPrefix(hist[i][h][g].reports, hist[i][h + 1][g].reports)
              /\ \A g \in 1..Len(hist[i][h + 1]) :
                    \A m \in 1..Len(hist[i][h + 1][g].reports) :
                        hist[i][h + 1][g].reports[m] \in
                            {input[i][k] : k \in 1..h}

\* a finished run that put three reports at three places into one cluster, whose
\* centroid is none of the three places
C21_Witness ==
    \E i \in Invocations :
        /\ pc[i] = "done"
        /\ Len(groups[i]) = 1
        /\ Len(groups[i][1].reports) = 3
        /\ groups[i][1].reports[1].coordinates = <<BaseLat, Lng>>
        /\ groups[i][1].reports[2].coordinates = <<BaseLat + 120, Lng>>
        /\ groups[i][1].reports[3].coordinates = <<BaseLat + 270, Lng>>
        /\ groups[i][1].centroid = <<<<BaseLat + 130, 1>>, <<Lng, 1>>>>
        /\ Len(hist[i]) = 4

\* ---------------------------------------------------------------------------
\* Vocabulary of the properties of the bounds
\* ---------------------------------------------------------------------------

BoundsDone == bdPc = "done"

\* the coordinates of the reports of the call that have coordinates
BoundsPlaces == {bdInput[k].coordinates : k \in {j \in 1..Len(bdInput) :
                                                    Len(bdInput[j].coordinates) = 2}}

\* v is the least (sign = 1) or greatest (sign = -1) component c of the places
Extreme(v, c, sign) ==
    /\ \E pl \in BoundsPlaces : pl[c] = v
    /\ \A pl \in BoundsPlaces : sign * v <= sign * pl[c]

\* 0.01 degrees
PaddingUnits == 100

\* C22: calculateBounds returns no polygon when no report has coordinates;
\* otherwise the ring has exactly 5 [lng, lat] positions, the corners of the
\* min/max box of the members widened by 0.01 degrees on all four sides, in the
\* order (min lng, min lat), (max lng, min lat), (max lng, max lat),
\* (min lng, max lat), and the first position again; for reports all at one
\* point (lat, lng) these are (lng-0.01, lat-0.01), (lng+0.01, lat-0.01),
\* (lng+0.01, lat+0.01), (lng-0.01, lat+0.01), (lng-0.01, lat-0.01).
C22_BoundsArePaddedClosedBox ==
    BoundsDone =>
        /\ (BoundsPlaces = {}) => bdResult = << >>
        /\ (BoundsPlaces # {}) =>
              /\ Len(bdResult) = 5
              /\ bdResult[5] = bdResult[1]
              /\ \E minLat \in {pl[1] : pl \in BoundsPlaces},
                    maxLat \in {pl[1] : pl \in BoundsPlaces},
                    minLng \in {pl[2] : pl \in BoundsPlaces},
                    maxLng \in {pl[2] : pl \in BoundsPlaces} :
                    /\ Extreme(minLat, 1, 1) /\ Extreme(maxLat, 1, -1)
                    /\ Extreme(minLng, 2, 1) /\ Extreme(maxLng, 2, -1)
                    /\ bdResult[1] = <<minLng - PaddingUnits, minLat - PaddingUnits>>
                    /\ bdResult[2] = <<maxLng + PaddingUnits, minLat - PaddingUnits>>
                    /\ bdResult[3] = <<maxLng + PaddingUnits, maxLat + PaddingUnits>>
                    /\ bdResult[4] = <<minLng - PaddingUnits, maxLat + PaddingUnits>>
        /\ \A pl \in BoundsPlaces :
              (BoundsPlaces = {pl}) =>
                  bdResult = << <<pl[2] - PaddingUnits, pl[1] - PaddingUnits>>,
                                <<pl[2] + PaddingUnits, pl[1] - PaddingUnits>>,
                                <<pl[2] + PaddingUnits, pl[1] + PaddingUnits>>,
                                <<pl[2] - PaddingUnits, pl[1] + PaddingUnits>>,
                                <<pl[2] - PaddingUnits, pl[1] - PaddingUnits>> >>

\* a call on two reports at one point and one without coordinates
C22_Witness ==
    /\ BoundsDone
    /\ Len(bdInput) = 3
    /\ bdInput[1].coordinates = <<BaseLat, Lng>>
    /\ bdInput[2].coordinates = NoCoords
    /\ bdInput[3].coordinates = <<BaseLat, Lng>>
    /\ bdResult = << <<Lng - 100, BaseLat - 100>>, <<Lng + 100, BaseLat - 100>>,
                     <<Lng + 100, BaseLat + 100>>, <<Lng - 100, BaseLat + 100>>,
                     <<Lng - 100, BaseLat - 100>> >>

\* ---------------------------------------------------------------------------
\* Vocabulary of the end-to-end property
\* ---------------------------------------------------------------------------

\* the table holds exactly A (critical, 1 h old, at X) and B (low, 1 h old, 100 m
\* from X), in either order
TableIsAandB ==
    /\ Len(db) = 2
    /\ \E a \in 1..2 : \E b \in 1..2 :
          /\ a # b
          /\ db[a].coordinates = <<BaseLat, Lng>> /\ db[a].severity = "critical"
          /\ db[b].coordinates = <<BaseLat + HundredMeters, Lng>> /\ db[b].severity = "low"
          /\ db[a].timestamp = NowHours - 1 /\ db[b].timestamp = NowHours - 1

\* a GET request answered 200 for a window of 168 hours
GetAnswered168 ==
    /\ GetRequestDone
    /\ rkResp.status = 200
    /\ ~rkCall.limit.nan
    /\ rkCall.timeWindowHours.value = 168

\* 4.79 and 4.80, in hundredths: the sum 4 x 0.959189 + 1 x 0.959189 = 4.795945
\* cut or rounded to two decimals
AboutFourPointSevenNine == {479, 480}

\* the list is one ranking of reports 1 and 2, critical, of score about 4.79
OneCriticalRankingOfBoth(rankings) ==
    /\ Len(rankings) = 1
    /\ {rankings[1].reportIds[m] : m \in 1..Len(rankings[1].reportIds)} = {1, 2}
    /\ rankings[1].score \in AboutFourPointSevenNine
    /\ rankings[1].severity = "critical"

\* C23: given exactly the two reports A (critical, 1 h old, at X) and B (low, 1 h
\* old, 100 m from X), in either order, the ranking for a window of 168 hours,
\* from calculateAreaSeverity called on them or from the area-severity endpoint,
\* has exactly one entry, whose cluster holds both, of score about 4.79 (the sum
\* of the two weighted terms) and severity critical.
C23_EndToEndTwoReports ==
    /\ (DirectCallDone /\ rkCall.timeWindowHours = 168 /\ TableIsAandB) =>
          OneCriticalRankingOfBoth(rkSorted)
    /\ (GetAnswered168 /\ TableIsAandB) =>
          OneCriticalRankingOfBoth(rkResp.rankings)

\* ---------------------------------------------------------------------------
\* Vocabulary of the properties of the client
\* ---------------------------------------------------------------------------

\* a getAreaSeverity request was issued after the initial fetch
RankingsRefetched == rankIssued >= 2

\* C24: with autoRefresh off as in App, once a 'new_report' broadcast has arrived
\* a new getAreaSeverity request is eventually issued, so the rankings do not
\* stay at the result of the initial fetch.
C24_BroadcastLeadsToRankingsRefetch == (events >= 1) ~> RankingsRefetched

\* the answer of the last settled request when it was a response, and the list
\* the hook held before
RankingsFetched == rankLast.ok /\ rankLast.seq >= 1

ReportsFetched == repLast.ok /\ repLast.seq >= 1

\* C25: a successful fetch keeps the list held before only when the fetched list
\* equals it: when the fetched rankings differ from the held ones in any ranking
\* at any position, or the fetched reports in the id at any position, the state
\* is the fetched list.
C25_ChangedDataReplacesHeld ==
    /\ (RankingsFetched /\ rankLast.answer # rankLast.prev) => rankingsHeld = rankLast.answer
    /\ (ReportsFetched /\ repLast.answer # repLast.prev) => reportsHeld = repLast.answer

\* the response to the most recently issued getReports request
LatestAnswers == {a \in repAnswers : a.seq = repIssued /\ a.ok}

\* C30: once every getReports request in flight has settled, reports, total and
\* hasMore are those of the response to the request issued last, whatever the
\* order the responses arrived in.
C30_LatestRequestWins ==
    (repIssued >= 1 /\ repFlight = {}) =>
        \A a \in LatestAnswers :
            /\ reportsHeld = a.answer[1].reports
            /\ total = a.answer[1].total
            /\ hasMore = a.answer[1].hasMore

\* ---------------------------------------------------------------------------
\* Vocabulary of the properties of the PAGASA cache
\* ---------------------------------------------------------------------------

\* a GET request for a known endpoint was served
PagasaGetDone ==
    pgPc = "done" /\ pgCall.method = "GET" /\ pgCall.endpoint \in PagasaEndpoints

\* the rows the endpoint of the request had before it
RowsBefore == pgCall.before[pgCall.endpoint]

\* no row of the endpoint was unexpired, and the fetch the handler made failed
StaleOrMissingAndFetchFailed ==
    /\ PagasaGetDone
    /\ \A k \in 1..Len(RowsBefore) : RowsBefore[k].expires_at <= PgNow
    /\ pgCall.fetched
    /\ UpstreamFails(pgCall.upstream)

StaleAnswer(row) ==
    /\ pgResp.status = 200
    /\ pgResp.data = row.data
    /\ pgResp.stale
    /\ pgResp.cachedAt = row.cached_at

\* C26 as stated: when no unexpired entry exists and the upstream fetch fails, the
\* response is 200 with the entry's data marked stale whenever an entry for the
\* endpoint exists, the entry left unchanged; when none exists the response is
\* 500 and no entry is created.
C26_AnyEntryServedStale ==
    StaleOrMissingAndFetchFailed =>
        /\ cache = pgCall.before
        /\ (RowsBefore # << >>) => StaleAnswer(RowsBefore[1])
        /\ (RowsBefore = << >>) => pgResp.status = 500

\* the cache read of the request gave the entry of the endpoint, and its data is
\* truthy
EntryServable ==
    /\ ~pgCall.readError
    /\ Len(RowsBefore) = 1
    /\ RowsBefore[1].data.truthy

\* C26, amended: under the same conditions the entry is served stale, and left
\* unchanged, when the cache read returned it and its data is truthy; when the
\* read returned no entry (none exists, or the read failed) or the entry's data
\* is falsy (0, false, "", null) the response is 500; in both cases the table is
\* left as it was.
C26_ReadableTruthyEntryServedStale ==
    StaleOrMissingAndFetchFailed =>
        /\ cache = pgCall.before
        /\ EntryServable => StaleAnswer(RowsBefore[1])
        /\ ~EntryServable => pgResp.status = 500

\* an expired entry with truthy data, the upstream answering 503: served stale
C26_Witness ==
    /\ StaleOrMissingAndFetchFailed
    /\ pgCall.upstream.kind = "status 503"
    /\ Len(RowsBefore) = 1
    /\ RowsBefore[1].expires_at < PgNow
    /\ pgResp.status = 200
    /\ pgResp.stale
    /\ pgResp.data.json = "[1]"
    /\ cache = pgCall.before


-----------------------------------------------------------------------------
(* The broadcast of the submission handlers *)

\* the row the finished submission left in the table, read as the response's report
StoredAsReport ==
    [id |-> sbStored[1].id, coordinates |-> sbStored[1].coordinates,
     severity |-> sbStored[1].severity, timestamp |-> sbStored[1].timestamp,
     needsRescue |-> sbStored[1].needs_rescue, source |-> sbStored[1].source]

BroadcastAttempted == sbBroadcast \in {"sent", "failed"}

\* C27: in a finished submission the broadcast is attempted only after the insert
\* succeeded and its outcome does not change the result: when the report is
\* persisted the response is 201 with the stored report, whether the broadcast was
\* sent or threw; a request answered 400 or 500 attempted no broadcast and left no row
C27_BroadcastAfterInsertNeverChangesResult ==
    SubmissionDone =>
        /\ (sbStored # << >>) =>
               /\ sbResp = 201
               /\ sbReport = <<StoredAsReport>>
               /\ BroadcastAttempted
               /\ sbBroadcast = (IF sbCall.broadcastThrows THEN "failed" ELSE "sent")
               /\ db[Len(db)] = sbStored[1]
        /\ (sbResp \in {400, 500}) =>
               /\ sbBroadcast = "none"
               /\ sbStored = << >>
               /\ sbReport = << >>
        /\ BroadcastAttempted => (sbStored # << >> /\ ~sbCall.insertError)
        /\ sbResp \in {201, 400, 500}

\* a report was persisted, the broadcast threw, and the response is 201 with the report
C27_Witness ==
    /\ SubmissionDone
    /\ sbCall.broadcastThrows
    /\ sbBroadcast = "failed"
    /\ sbResp = 201
    /\ Len(sbStored) = 1
    /\ sbReport = <<StoredAsReport>>


-----------------------------------------------------------------------------
(* The classification against the score thresholds alone *)

LevelOrder == [low |-> 1, medium |-> 2, high |-> 3, critical |-> 4]

\* the level the score thresholds alone give for the score of the call
ThresholdLevel ==
    IF clsArgs.score >= 12 * ScoreUnit THEN "critical"
    ELSE IF clsArgs.score >= 6 * ScoreUnit THEN "high"
    ELSE IF clsArgs.score >= 3 * ScoreUnit THEN "medium"
    ELSE "low"

\* report k is the first of the call that meets a recency-override condition
ClsFirstQualifying(k) == ClsQualifies(k) /\ \A j \in 1..(k - 1) : ~ClsQualifies(j)

(* C28 as stated: for every score, list and now the result is never lower, in    *)
(* the order low < medium < high < critical, than the level the score thresholds *)
(* alone give.                                                                   *)
C28_NeverBelowThresholdLevel ==
    clsPc = "done" => LevelOrder[clsResult] >= LevelOrder[ThresholdLevel]

(* C28 amended: the result is the severity of the first report that meets a      *)
(* recency-override condition, whatever the score, and the threshold level when  *)
(* no report meets one; so it is below the threshold level exactly when that     *)
(* first report's severity is below it.                                          *)
C28_BelowThresholdLevelOnlyByOverride ==
    clsPc = "done" =>
        /\ (\A k \in ClsPositions : ~ClsQualifies(k)) => clsResult = ThresholdLevel
        /\ \A k \in ClsPositions :
              ClsFirstQualifying(k) =>
                  /\ clsResult = clsArgs.reports[k].severity
                  /\ (LevelOrder[clsResult] < LevelOrder[ThresholdLevel])
                       <=> (LevelOrder[clsArgs.reports[k].severity]
                              < LevelOrder[ThresholdLevel])

\* two critical reports of age 6 h and a medium report of age 1 h, classified with
\* their own score (above the high threshold): the result is medium
C28_Witness ==
    /\ clsPc = "done"
    /\ clsArgs.reports = OldCriticalsThenMedium
    /\ clsArgs.score = calculateSeverityScore(OldCriticalsThenMedium, NowHours)
    /\ ThresholdLevel = "high"
    /\ clsResult = "medium"


-----------------------------------------------------------------------------
(* The severities the area-severity endpoint ranks with *)

GetAnswered == GetRequestDone /\ rkResp.status = 200

\* the reports of the request with the severities their rows hold
StoredReports ==
    [k \in 1..Len(rkCall.reports) |->
        [rkCall.reports[k] EXCEPT !.severity = db[rkCall.reports[k].id].severity]]

\* the members of a ranking, in the order they joined, as the request ranked them
RankedMembers(ranking) ==
    [m \in 1..Len(ranking.reportIds) |->
        rkCall.reports[CHOOSE j \in 1..Len(rkCall.reports) :
                           rkCall.reports[j].id = ranking.reportIds[m]]]

\* C29: in a GET request answered 200 the reports ranked are the fetched rows (not
\* deleted, inside the window), each with the severity
\* calculateSeverityForLocation(all fetched reports with their stored severities,
\* its coordinates, now) in place of the stored one, and every ranking's
\* reportCounts, score and severity are those of its members with these recomputed
\* severities; the response carries a prefix of the sorted rankings.
C29_HandlerRanksRecomputedSeverities ==
    GetAnswered =>
        /\ {rkCall.reports[k].id : k \in 1..Len(rkCall.reports)}
             = {db[r].id : r \in {r \in 1..Len(db) :
                    /\ db[r].deleted_at = << >>
                    /\ db[r].timestamp >= NowHours - rkCall.timeWindowHours.value}}
        /\ \A k \in 1..Len(rkCall.reports) :
              rkCall.reports[k].severity =
                  calculateSeverityForLocation(StoredReports, rkCall.reports[k].coordinates,
                                               NowHours, 2500)
        /\ \A k \in 1..Len(rkSorted) :
              LET members == RankedMembers(rkSorted[k])
                  score == calculateSeverityScore(members, NowHours)
              IN  /\ \A level \in Severities :
                        rkSorted[k].reportCounts[level] =
                            Cardinality({m \in 1..Len(members) : members[m].severity = level})
                  /\ rkSorted[k].score = RoundedScore(score)
                  /\ rkSorted[k].severity = assignSeverityLevel(score, members, NowHours)
        /\ IsPrefix(rkResp.rankings, rkSorted)

\* a stored critical row and a stored low row at the same place, both one hour old:
\* the request ranks one cluster of two critical reports
C29_Witness ==
    /\ GetAnswered
    /\ Len(db) = 2
    /\ db[1].severity = "critical" /\ db[2].severity = "low"
    /\ db[1].coordinates = db[2].coordinates
    /\ db[1].timestamp = NowHours - 1 /\ db[2].timestamp = NowHours - 1
    /\ db[1].deleted_at = << >> /\ db[2].deleted_at = << >>
    /\ Len(rkResp.rankings) = 1
    /\ rkResp.rankings[1].reportCounts.critical = 2
    /\ rkResp.rankings[1].reportCounts.low = 0

====
